---- MODULE Spec2Model ----
(***************************************************************************)
(* Source Analysis & Resolution Engine of epistemic-check-mcp:             *)
(*   ASTAnalyzer        (parser cache, symbol / signature extraction)      *)
(*   ImportTracker      (import / export extraction, module resolution)    *)
(*   SignatureValidator (call-site arity check)                            *)
(*                                                                         *)
(* Strings (paths, specifiers, extensions) are sequences of one-character  *)
(* strings, so that startsWith, '+', dirname, resolve and join are         *)
(* computed the way the code computes them.                                *)
(***************************************************************************)
EXTENDS Integers, Sequences, FiniteSets, TLC

VARIABLES
    fs,              \* the file system: existing file path -> source text
    cache,           \* ASTAnalyzer.cache of each analyzer instance: path -> tree
    importsCache,    \* ImportTracker.importsCache: path -> ImportInfo[]
    exportsCache,    \* ImportTracker.exportsCache: path -> ExportInfo[]
    signatureCache,  \* SignatureValidator.signatureCache: path -> FunctionSignature[]
    trav,            \* the running traversal of extractSymbols
    config,          \* StrictModeManager.config
    toolUsageHistory,   \* StrictModeManager.toolUsageHistory: tool name -> count
    validationHistory,  \* StrictModeManager.validationHistory: tool name -> count
    symbolCache,     \* ExistenceCheckTools.symbolCache: path -> SymbolInfo[]
    calls,           \* the tool calls in flight: where each one awaits
    resourceExports, \* ExportsMapResource.exportsCache: path -> ExportInfo[]
    resourceImports, \* ExportsMapResource.importsCache: path -> ImportInfo[]
    cacheTime,       \* ExportsMapResource.cacheTime
    now,             \* Date.now()
    res              \* the last operation: its name, arguments and outcome

vars == <<fs, cache, importsCache, exportsCache, signatureCache, trav,
          config, toolUsageHistory, validationHistory,
          symbolCache, calls, resourceExports, resourceImports, cacheTime, now, res>>
cacheVars == <<cache, importsCache, exportsCache, signatureCache>>
managerVars == <<config, toolUsageHistory, validationHistory>>
existenceVars == <<symbolCache, calls>>
resourceVars == <<resourceExports, resourceImports, cacheTime, now>>
serverVars == <<managerVars, existenceVars, resourceVars>>

----------------------------------------------------------------------------
(* Bounds of the model *)

MaxFiles == 3      \* files that exist at the same time
MaxStmts == 2      \* top-level statements of a traversed syntax tree
MaxArgs == 3       \* arguments of a checked call
MaxParams == 2     \* parameters supplied to a known-API check

----------------------------------------------------------------------------
(* JavaScript values *)

Null == <<"null">>            \* differs from every string (strings hold single characters)
EmptyMap == <<>>              \* new Map()

Has(m, k) == k \in DOMAIN m
MapSet(m, k, v) == [x \in (DOMAIN m) \cup {k} |-> IF x = k THEN v ELSE m[x]]

StartsWith(s, prefix) ==
    /\ Len(s) >= Len(prefix)
    /\ SubSeq(s, 1, Len(prefix)) = prefix

Includes(list, x) == \E i \in 1..Len(list) : list[i] = x

----------------------------------------------------------------------------
(* node:path on absolute POSIX paths *)

RECURSIVE SplitSlash(_)
SplitSlash(s) ==
    IF \A i \in 1..Len(s) : s[i] # "/"
    THEN <<s>>
    ELSE LET i == CHOOSE k \in 1..Len(s) :
                      s[k] = "/" /\ \A j \in 1..(k - 1) : s[j] # "/"
         IN <<SubSeq(s, 1, i - 1)>> \o SplitSlash(SubSeq(s, i + 1, Len(s)))

RECURSIVE NormalizeSegments(_, _)
NormalizeSegments(segs, acc) ==
    IF segs = <<>> THEN acc
    ELSE LET h == Head(segs)
             next == IF h = <<>> \/ h = <<".">> THEN acc
                     ELSE IF h = <<".", ".">>
                          THEN (IF acc = <<>> THEN acc ELSE SubSeq(acc, 1, Len(acc) - 1))
                          ELSE Append(acc, h)
         IN NormalizeSegments(Tail(segs), next)

RECURSIVE JoinSlash(_)
JoinSlash(segs) ==
    IF segs = <<>> THEN <<>> ELSE <<"/">> \o Head(segs) \o JoinSlash(Tail(segs))

AbsolutePath(segs) == IF segs = <<>> THEN <<"/">> ELSE JoinSlash(segs)

\* path.resolve(from, to), from absolute
resolve(from, to) ==
    IF StartsWith(to, <<"/">>)
    THEN AbsolutePath(NormalizeSegments(SplitSlash(to), <<>>))
    ELSE AbsolutePath(NormalizeSegments(SplitSlash(from) \o SplitSlash(to), <<>>))

\* path.join(a, b), a absolute
join(a, b) == AbsolutePath(NormalizeSegments(SplitSlash(a) \o SplitSlash(b), <<>>))

\* path.dirname(p), p without a trailing slash
dirname(p) ==
    IF \A i \in 1..Len(p) : p[i] # "/" THEN <<".">>
    ELSE LET last == CHOOSE k \in 1..Len(p) :
                         p[k] = "/" /\ \A j \in (k + 1)..Len(p) : p[j] # "/"
         IN IF last = 1 THEN <<"/">> ELSE SubSeq(p, 1, last - 1)

----------------------------------------------------------------------------
(* The file system. A directory exists whenever a file inside it exists.  *)

IsDirectory(files, p) ==
    \/ p = <<"/">>
    \/ \E f \in files : StartsWith(f, p \o <<"/">>)

\* a variant that also finds a path whose tree the tracker's parser has cached
existsSync_orCached(p) ==
    p \in DOMAIN fs \/ IsDirectory(DOMAIN fs, p) \/ Has(cache["tracker"], p)

\* fs.existsSync(p): true for files and for directories
existsSync(p) == p \in DOMAIN fs \/ IsDirectory(DOMAIN fs, p)

\* a path can be created as a file when it is no directory and no ancestor is a file
CanCreate(p) ==
    /\ ~IsDirectory(DOMAIN fs, p)
    /\ \A f \in DOMAIN fs : ~StartsWith(p, f \o <<"/">>)

----------------------------------------------------------------------------
(* ImportTracker.resolveImportPath *)

builtInModules == <<
       <<"f","s">>,
       <<"p","a","t","h">>,
       <<"h","t","t","p">>,
       <<"h","t","t","p","s">>,
       <<"u","r","l">>,
       <<"q","u","e","r","y","s","t","r","i","n","g">>,
       <<"u","t","i","l">>,
       <<"e","v","e","n","t","s">>,
       <<"s","t","r","e","a","m">>,
       <<"b","u","f","f","e","r">>,
       <<"c","r","y","p","t","o">>,
       <<"o","s">>,
       <<"c","l","u","s","t","e","r">>,
       <<"c","h","i","l","d","_","p","r","o","c","e","s","s">>,
       <<"n","e","t">>,
       <<"d","g","r","a","m">>,
       <<"d","n","s">>,
       <<"t","l","s">>,
       <<"z","l","i","b">>,
       <<"r","e","a","d","l","i","n","e">>,
       <<"v","m">>,
       <<"p","r","o","c","e","s","s">>,
       <<"a","s","s","e","r","t">>,
       <<"t","i","m","e","r","s">>,
       <<"a","s","y","n","c","_","h","o","o","k","s">>,
       <<"w","o","r","k","e","r","_","t","h","r","e","a","d","s">>,
       <<"c","o","n","s","o","l","e">> >>

NodePrefix == <<"n","o","d","e",":">>
IndexName == <<"i","n","d","e","x">>
PackageJson == <<"p","a","c","k","a","g","e",".","j","s","o","n">>

\* a variant that probes the literal path before the suffixed ones
extensions_literalFirst == <<
    <<>>,
    <<".","t","s">>,
    <<".","t","s","x">>,
    <<".","j","s">>,
    <<".","j","s","x">>,
    <<".","m","t","s">>,
    <<".","m","j","s">>,
    <<".","c","j","s">> >>

extensions == <<
    <<".","t","s">>,
    <<".","t","s","x">>,
    <<".","j","s">>,
    <<".","j","s","x">>,
    <<".","m","t","s">>,
    <<".","m","j","s">>,
    <<".","c","j","s">>,
    <<>> >>

\* a variant that trusts scoped packages only
isExternalPackage_scopedOnly(importPath) == StartsWith(importPath, <<"@">>)

\* "External packages (doesn't start with . or /)"
isExternalPackage(importPath) ==
    /\ ~StartsWith(importPath, <<".">>)
    /\ ~StartsWith(importPath, <<"/">>)

isBuiltIn(importPath) ==
    Includes(builtInModules, importPath) \/ StartsWith(importPath, NodePrefix)

\* index of the first candidate that exists, 0 when none does
FirstExisting(cands) ==
    IF \A i \in 1..Len(cands) : ~existsSync(cands[i]) THEN 0
    ELSE CHOOSE i \in 1..Len(cands) :
             existsSync(cands[i]) /\ \A j \in 1..(i - 1) : ~existsSync(cands[j])

\* the candidates a loop with break has probed
Probed(cands) ==
    IF FirstExisting(cands) = 0 THEN cands ELSE SubSeq(cands, 1, FirstExisting(cands))

findAlternativePaths(targetPath, searchDir) == <<>>

\* a variant that reports the path it tried instead of null
notFoundResult_keepsPath(importPath, fromFile, resolvedPath, alternatives) ==
    [resolvedPath |-> resolvedPath,
     exists |-> FALSE,
     alternatives |-> alternatives,
     error |-> [template |-> "Import path '${importPath}' could not be resolved from ${fromFile}",
               importPath |-> importPath,
               fromFile |-> fromFile]]

\* the result of a failed resolution; the error is the template string and the values
\* substituted into it
notFoundResult(importPath, fromFile, resolvedPath, alternatives) ==
    [resolvedPath |-> Null,
     exists |-> FALSE,
     alternatives |-> alternatives,
     error |-> [template |-> "Import path '${importPath}' could not be resolved from ${fromFile}",
               importPath |-> importPath,
               fromFile |-> fromFile]]

\* the value returned and the existsSync calls made, in order
resolveImportPath(importPath, fromFile) ==
    LET fromDir == dirname(fromFile)
        resolvedPath == resolve(fromDir, importPath)
        withExt == [i \in 1..Len(extensions) |-> resolvedPath \o extensions[i]]
        k1 == FirstExisting(withExt)
        indexPaths == [i \in 1..Len(extensions) |->
                          join(resolvedPath, IndexName \o extensions[i])]
        k2 == FirstExisting(indexPaths)
        packageJsonPath == join(resolvedPath, PackageJson)
        foundPath == IF k1 > 0 THEN withExt[k1]
                     ELSE IF k2 > 0 THEN indexPaths[k2]
                     ELSE IF existsSync(packageJsonPath) THEN resolvedPath
                     ELSE Null
        probes == Probed(withExt)
                  \o (IF k1 > 0 THEN <<>> ELSE Probed(indexPaths))
                  \o (IF k1 > 0 \/ k2 > 0 THEN <<>> ELSE <<packageJsonPath>>)
    IN  IF isBuiltIn(importPath)
        THEN [ret |-> [resolvedPath |-> importPath, exists |-> TRUE], probes |-> <<>>]
        ELSE IF isExternalPackage(importPath)
        THEN [ret |-> [resolvedPath |-> importPath, exists |-> TRUE], probes |-> <<>>]
        ELSE IF foundPath # Null
        THEN [ret |-> [resolvedPath |-> foundPath, exists |-> TRUE], probes |-> probes]
        ELSE [ret |-> notFoundResult(importPath, fromFile, resolvedPath,
                                     findAlternativePaths(resolvedPath, fromDir)),
              probes |-> probes]

----------------------------------------------------------------------------
(* Syntax trees. A File holds its top-level statements, one per source    *)
(* line; statement bodies (nested scopes) are not modelled. Identifier    *)
(* names are atomic strings.                                               *)

NoId == "null"                     \* node.id === null
NoNode == [type |-> "null"]        \* node.declaration === null

FunctionDeclaration(id, params) ==
    [type |-> "FunctionDeclaration", id |-> id, params |-> params,
     async |-> FALSE, generator |-> FALSE, returnType |-> "undefined"]
VariableDeclaration(names) == [type |-> "VariableDeclaration", declarations |-> names]
ClassDeclaration(id, methods) == [type |-> "ClassDeclaration", id |-> id, methods |-> methods]
TSInterfaceDeclaration(id) == [type |-> "TSInterfaceDeclaration", id |-> id]
TSTypeAliasDeclaration(id) == [type |-> "TSTypeAliasDeclaration", id |-> id]
Identifier(name) == [type |-> "Identifier", name |-> name]
ExportSpecifier(local, exported) == [local |-> local, exported |-> exported]
ExportNamedDeclaration(declaration, specifiers) ==
    [type |-> "ExportNamedDeclaration", declaration |-> declaration, specifiers |-> specifiers]
ExportDefaultDeclaration(declaration) ==
    [type |-> "ExportDefaultDeclaration", declaration |-> declaration]
File(body) == [type |-> "File", body |-> body]

DeclarationTypes == {"FunctionDeclaration", "VariableDeclaration", "ClassDeclaration",
                     "TSInterfaceDeclaration", "TSTypeAliasDeclaration"}
ExportTypes == {"ExportNamedDeclaration", "ExportDefaultDeclaration"}

\* the nodes of one statement in the order the traversal enters them: a node before
\* its children
EnterOrder(stmt, line) ==
    IF stmt.type \in ExportTypes /\ stmt.declaration.type \in DeclarationTypes
    THEN <<[node |-> stmt, line |-> line], [node |-> stmt.declaration, line |-> line]>>
    ELSE <<[node |-> stmt, line |-> line]>>

RECURSIVE PreOrderFrom(_, _)
PreOrderFrom(body, line) ==
    IF line > Len(body) THEN <<>>
    ELSE EnterOrder(body[line], line) \o PreOrderFrom(body, line + 1)

\* traverse.default(ast, visitors): depth first, each visitor on entering its node
PreOrder(ast) == PreOrderFrom(ast.body, 1)

----------------------------------------------------------------------------
(* ASTAnalyzer.extractSymbols *)

\* The visitors are plain methods of an object literal, and traverse is called
\* without a state argument: inside a visitor 'this' is the traversal state, which is
\* undefined, and never the analyzer.
visitorThis == "undefined"

TypeErrorOf(member) ==
    [name |-> "TypeError",
     message |-> "Cannot read properties of undefined (reading '" \o member \o "')"]

RECURSIVE JoinComma(_)
JoinComma(strs) ==
    IF strs = <<>> THEN ""
    ELSE IF Len(strs) = 1 THEN strs[1]
    ELSE strs[1] \o ", " \o JoinComma(Tail(strs))

generateFunctionSignature(node) ==
    LET name == IF node.id # NoId THEN node.id ELSE "anonymous"
        params == JoinComma([i \in 1..Len(node.params) |->
                      IF node.params[i].optional
                      THEN node.params[i].name \o "?" ELSE node.params[i].name])
        s1 == name \o "(" \o params \o ")"
        s2 == IF node.async THEN "async " \o s1 ELSE s1
        s3 == IF node.generator THEN "function* " \o s2 ELSE "function " \o s2
    IN  IF node.returnType # "undefined" THEN s3 \o ": " \o node.returnType ELSE s3

generateMethodSignature(key) == key \o "()"

\* symbols.find(s => s.name === name); if (symbol) symbol.exported = true
MarkExported(symbols, name) ==
    IF \A i \in 1..Len(symbols) : symbols[i].name # name THEN symbols
    ELSE LET k == CHOOSE i \in 1..Len(symbols) :
                      symbols[i].name = name /\ \A j \in 1..(i - 1) : symbols[j].name # name
         IN [symbols EXCEPT ![k].exported = TRUE]

RECURSIVE MarkEach(_, _)
MarkEach(symbols, names) ==
    IF names = <<>> THEN symbols
    ELSE MarkEach(MarkExported(symbols, Head(names)), Tail(names))

Continue(symbols) == [raised |-> FALSE, symbols |-> symbols]
Raise(symbols, error) == [raised |-> TRUE, symbols |-> symbols, error |-> error]

visitFunctionDeclaration(node, line, symbols, filePath) ==
    IF node.id = NoId THEN Continue(symbols)
    ELSE IF visitorThis # "analyzer"
    THEN Raise(symbols, TypeErrorOf("generateFunctionSignature"))
    ELSE Continue(Append(symbols,
             [name |-> node.id, type |-> "function", filePath |-> filePath, line |-> line,
              signature |-> generateFunctionSignature(node), exported |-> FALSE]))

visitVariableDeclaration(node, line, symbols, filePath) ==
    Continue(symbols \o [i \in 1..Len(node.declarations) |->
        [name |-> node.declarations[i], type |-> "variable", filePath |-> filePath,
         line |-> line, exported |-> FALSE]])

visitClassDeclaration(node, line, symbols, filePath) ==
    LET own == IF node.id = NoId THEN <<>>
               ELSE <<[name |-> node.id, type |-> "class", filePath |-> filePath,
                       line |-> line, exported |-> FALSE]>>
    IN  IF node.methods = <<>> THEN Continue(symbols \o own)
        ELSE IF visitorThis # "analyzer"
        THEN Raise(symbols \o own, TypeErrorOf("generateMethodSignature"))
        ELSE Continue(symbols \o own \o [i \in 1..Len(node.methods) |->
                 [name |-> node.methods[i], type |-> "function", filePath |-> filePath,
                  line |-> line, signature |-> generateMethodSignature(node.methods[i]),
                  exported |-> FALSE]])

visitTSInterfaceDeclaration(node, line, symbols, filePath) ==
    Continue(Append(symbols,
        [name |-> node.id, type |-> "interface", filePath |-> filePath, line |-> line,
         exported |-> FALSE]))

visitTSTypeAliasDeclaration(node, line, symbols, filePath) ==
    Continue(Append(symbols,
        [name |-> node.id, type |-> "type", filePath |-> filePath, line |-> line,
         exported |-> FALSE]))

visitExportNamedDeclaration(node, line, symbols, filePath) ==
    LET d == node.declaration
        afterDeclaration ==
            IF d.type = "FunctionDeclaration" /\ d.id # NoId THEN MarkExported(symbols, d.id)
            ELSE IF d.type = "ClassDeclaration" /\ d.id # NoId THEN MarkExported(symbols, d.id)
            ELSE IF d.type = "VariableDeclaration" THEN MarkEach(symbols, d.declarations)
            ELSE symbols
    IN  Continue(MarkEach(afterDeclaration,
                          [i \in 1..Len(node.specifiers) |-> node.specifiers[i].local]))

visitExportDefaultDeclaration(node, line, symbols, filePath) ==
    LET d == node.declaration
    IN  IF d.type = "FunctionDeclaration" /\ d.id # NoId
        THEN Continue(MarkExported(symbols, d.id))
        ELSE IF d.type = "ClassDeclaration" /\ d.id # NoId
        THEN Continue(MarkExported(symbols, d.id))
        ELSE Continue(symbols)

----------------------------------------------------------------------------
(* Inputs of the resolver *)

SpecX == <<".","/","x">>                      \* "./x"
SpecXts == <<".","/","x",".","t","s">>        \* "./x.ts"
SpecUpX == <<".",".","/","x">>                \* "../x"
SpecAbsX == <<"/","x">>                       \* "/x"
SpecFs == <<"f","s">>                         \* "fs"
SpecNodeX == <<"n","o","d","e",":","x">>      \* "node:x"
SpecBareX == <<"x">>                          \* "x", a package
Specifiers == {SpecX, SpecXts, SpecUpX, SpecAbsX, SpecFs, SpecNodeX, SpecBareX}

FileA == <<"/","a",".","t","s">>              \* "/a.ts"
FileB == <<"/","d","/","b",".","t","s">>      \* "/d/b.ts"
FromFiles == {FileA, FileB}

PathX == <<"/","x">>
PathXts == <<"/","x",".","t","s">>
PathXjs == <<"/","x",".","j","s">>
PathXIndexTs == <<"/","x","/","i","n","d","e","x",".","t","s">>
PathXIndexJs == <<"/","x","/","i","n","d","e","x",".","j","s">>
PathXPackageJson == <<"/","x","/">> \o PackageJson
PathDXts == <<"/","d","/","x",".","t","s">>
DiskPaths == {PathX, PathXts, PathXjs, PathXIndexTs, PathXIndexJs, PathXPackageJson, PathDXts}

PlainText == "plain"

----------------------------------------------------------------------------
(* Actions *)

\* the environment writes a file
WriteFile(p, text) ==
    /\ p \in DOMAIN fs \/ (CanCreate(p) /\ Cardinality(DOMAIN fs) < MaxFiles)
    /\ fs' = MapSet(fs, p, text)
    /\ res' = [op |-> "writeFile", path |-> p]
    /\ UNCHANGED <<cacheVars, trav, serverVars>>

\* the environment deletes a file
DeleteFile(p) ==
    /\ p \in DOMAIN fs
    /\ fs' = [x \in (DOMAIN fs) \ {p} |-> fs[x]]
    /\ res' = [op |-> "deleteFile", path |-> p]
    /\ UNCHANGED <<cacheVars, trav, serverVars>>

Resolve(importPath, fromFile) ==
    /\ res' = [op |-> "resolveImportPath",
               importPath |-> importPath,
               fromFile |-> fromFile,
               ret |-> resolveImportPath(importPath, fromFile).ret,
               probes |-> resolveImportPath(importPath, fromFile).probes]
    /\ UNCHANGED <<fs, cacheVars, trav, serverVars>>

NoTraversal == [status |-> "idle"]

\* the analyzer instances: one used directly, the tracker's, the validator's
Analyzers == {"standalone", "tracker", "validator", "existence"}

InitCaches ==
    /\ cache = [a \in Analyzers |-> EmptyMap]
    /\ importsCache = EmptyMap
    /\ exportsCache = EmptyMap
    /\ signatureCache = EmptyMap

\* new StrictModeManager({level: config.strictMode || "off", requireValidationFor:
\* config.requireValidationFor}) of a server started without either setting
InitManager ==
    /\ config = [level |-> "off"]
    /\ toolUsageHistory = EmptyMap
    /\ validationHistory = EmptyMap

\* private cacheTTL: number = 60000, in units of 30 seconds
cacheTTL == 2

\* the clock of a process started long after the epoch
StartTime == cacheTTL + 1

MaxInFlight == 2

CallIds == 1..MaxInFlight

\* no tool call in flight
NoCalls == [c \in CallIds |-> [pc |-> "idle"]]

\* new ExistenceCheckTools(config), new ExportsMapResource(config)
InitTools ==
    /\ symbolCache = EmptyMap
    /\ calls = NoCalls
    /\ resourceExports = EmptyMap
    /\ resourceImports = EmptyMap
    /\ cacheTime = 0
    /\ now = StartTime

InitResolve ==
    /\ fs = EmptyMap
    /\ InitCaches
    /\ InitManager
    /\ InitTools
    /\ trav = NoTraversal
    /\ res = [op |-> "init"]

NextResolve ==
    \/ \E p \in DiskPaths : WriteFile(p, PlainText)
    \/ \E p \in DiskPaths : DeleteFile(p)
    \/ \E s \in Specifiers, f \in FromFiles : Resolve(s, f)

SpecResolve == InitResolve /\ [][NextResolve]_vars

----------------------------------------------------------------------------
(* Inputs of the symbol extractor: the files of at most MaxStmts statements *)
(* that the parser accepts                                                 *)

Decls == {
    FunctionDeclaration("f", <<>>),
    VariableDeclaration(<<"x">>),
    ClassDeclaration("C", <<>>),
    ClassDeclaration("C", <<"f">>),
    TSInterfaceDeclaration("x"),
    TSTypeAliasDeclaration("x") }

Statements ==
    Decls
    \cup {ExportNamedDeclaration(d, <<>>) : d \in Decls}
    \cup {ExportNamedDeclaration(NoNode, <<ExportSpecifier(n, n)>>) : n \in {"f", "x", "C"}}
    \cup {ExportDefaultDeclaration(d) :
             d \in {FunctionDeclaration("f", <<>>), FunctionDeclaration(NoId, <<>>),
                    ClassDeclaration("C", <<>>), Identifier("x")}}

\* the bindings a declaration introduces, as <<name, declaration space>>
Bindings(d) ==
    IF d.type = "FunctionDeclaration" /\ d.id # NoId THEN {<<d.id, "value">>}
    ELSE IF d.type = "VariableDeclaration"
    THEN {<<d.declarations[i], "value">> : i \in 1..Len(d.declarations)}
    ELSE IF d.type = "ClassDeclaration" /\ d.id # NoId
    THEN {<<d.id, "value">>, <<d.id, "type">>}
    ELSE IF d.type \in {"TSInterfaceDeclaration", "TSTypeAliasDeclaration"}
    THEN {<<d.id, "type">>}
    ELSE {}

Declared(stmt) ==
    IF stmt.type \in ExportTypes THEN Bindings(stmt.declaration) ELSE Bindings(stmt)

ExportedNames(stmt) ==
    IF stmt.type = "ExportDefaultDeclaration" THEN {"default"}
    ELSE IF stmt.type = "ExportNamedDeclaration"
    THEN {b[1] : b \in Bindings(stmt.declaration)}
         \cup {stmt.specifiers[i].exported : i \in 1..Len(stmt.specifiers)}
    ELSE {}

\* the parser rejects a redeclared binding, a name exported twice and an export of an
\* undeclared name
Parses(body) ==
    /\ \A i, j \in 1..Len(body) : i < j =>
           /\ Declared(body[i]) \cap Declared(body[j]) = {}
           /\ ExportedNames(body[i]) \cap ExportedNames(body[j]) = {}
    /\ \A i \in 1..Len(body) : body[i].type = "ExportNamedDeclaration" =>
           \A k \in 1..Len(body[i].specifiers) :
               \E j \in 1..Len(body) : \E b \in Declared(body[j]) :
                   b[1] = body[i].specifiers[k].local

Trees ==
    {File(body) : body \in {b \in UNION {[1..n -> Statements] : n \in 0..MaxStmts} : Parses(b)}}

----------------------------------------------------------------------------
(* The traversal of extractSymbols, one step per visitor call *)

Visiting(type) ==
    /\ trav.status = "running"
    /\ trav.pos < Len(trav.order)
    /\ trav.order[trav.pos + 1].node.type = type

Entered == trav.order[trav.pos + 1]

Step(outcome) ==
    /\ trav' = [trav EXCEPT !.pos = @ + 1,
                            !.symbols = outcome.symbols,
                            !.status = IF outcome.raised THEN "raised" ELSE @]
    /\ res' = IF outcome.raised
              THEN [op |-> "extractSymbols", ast |-> trav.ast, raised |-> TRUE,
                    error |-> outcome.error]
              ELSE res
    /\ UNCHANGED <<fs, cacheVars, serverVars>>

ExtractSymbolsCall(ast, filePath) ==
    /\ trav.status # "running"
    /\ trav' = [status |-> "running", ast |-> ast, filePath |-> filePath,
                order |-> PreOrder(ast), pos |-> 0, symbols |-> <<>>]
    /\ res' = [op |-> "traverse", ast |-> ast]
    /\ UNCHANGED <<fs, cacheVars, serverVars>>

VisitFunctionDeclaration ==
    /\ Visiting("FunctionDeclaration")
    /\ Step(visitFunctionDeclaration(Entered.node, Entered.line, trav.symbols, trav.filePath))

VisitVariableDeclaration ==
    /\ Visiting("VariableDeclaration")
    /\ Step(visitVariableDeclaration(Entered.node, Entered.line, trav.symbols, trav.filePath))

VisitClassDeclaration ==
    /\ Visiting("ClassDeclaration")
    /\ Step(visitClassDeclaration(Entered.node, Entered.line, trav.symbols, trav.filePath))

VisitTSInterfaceDeclaration ==
    /\ Visiting("TSInterfaceDeclaration")
    /\ Step(visitTSInterfaceDeclaration(Entered.node, Entered.line, trav.symbols, trav.filePath))

VisitTSTypeAliasDeclaration ==
    /\ Visiting("TSTypeAliasDeclaration")
    /\ Step(visitTSTypeAliasDeclaration(Entered.node, Entered.line, trav.symbols, trav.filePath))

VisitExportNamedDeclaration ==
    /\ Visiting("ExportNamedDeclaration")
    /\ Step(visitExportNamedDeclaration(Entered.node, Entered.line, trav.symbols, trav.filePath))

VisitExportDefaultDeclaration ==
    /\ Visiting("ExportDefaultDeclaration")
    /\ Step(visitExportDefaultDeclaration(Entered.node, Entered.line, trav.symbols, trav.filePath))

\* traverse has entered every node: return symbols
ExtractSymbolsReturn ==
    /\ trav.status = "running"
    /\ trav.pos = Len(trav.order)
    /\ trav' = [trav EXCEPT !.status = "returned"]
    /\ res' = [op |-> "extractSymbols", ast |-> trav.ast, raised |-> FALSE,
               ret |-> trav.symbols]
    /\ UNCHANGED <<fs, cacheVars, serverVars>>

----------------------------------------------------------------------------
(* Claims about the module resolver, checked under SpecResolve *)

IsResolve == res.op = "resolveImportPath"
IsRelative(importPath) == StartsWith(importPath, <<".">>) \/ StartsWith(importPath, <<"/">>)
ResolvedBase == resolve(dirname(res.fromFile), res.importPath)

\* the probe order stated on its own: suffixed paths, the literal path, index files,
\* the manifest
ProbeOrder(base) == <<
    base \o <<".","t","s">>,
    base \o <<".","t","s","x">>,
    base \o <<".","j","s">>,
    base \o <<".","j","s","x">>,
    base \o <<".","m","t","s">>,
    base \o <<".","m","j","s">>,
    base \o <<".","c","j","s">>,
    base,
    base \o <<"/">> \o IndexName \o <<".","t","s">>,
    base \o <<"/">> \o IndexName \o <<".","t","s","x">>,
    base \o <<"/">> \o IndexName \o <<".","j","s">>,
    base \o <<"/">> \o IndexName \o <<".","j","s","x">>,
    base \o <<"/">> \o IndexName \o <<".","m","t","s">>,
    base \o <<"/">> \o IndexName \o <<".","m","j","s">>,
    base \o <<"/">> \o IndexName \o <<".","c","j","s">>,
    base \o <<"/">> \o IndexName,
    base \o <<"/">> \o PackageJson >>

\* C1 (as claimed): whenever both the literal resolved path and the resolved path +
\* '.ts' exist, resolvedPath is the literal resolved path.
C1_LiteralFirst ==
    (IsResolve /\ IsRelative(res.importPath)
       /\ existsSync(ResolvedBase) /\ existsSync(ResolvedBase \o <<".","t","s">>))
    => res.ret.resolvedPath = ResolvedBase

\* C1 (amended): for a relative specifier the resolver returns the first existing
\* candidate in the order: resolved path + each of .ts .tsx .js .jsx .mts .mjs .cjs,
\* then the literal resolved path, then index + extension (and bare index) inside it,
\* then the manifest inside it (reported as the literal resolved path); null when
\* none exists. In particular, when both the literal path and the path + '.ts'
\* exist, resolvedPath is the path + '.ts'.
C1_ProbeOrder ==
    (IsResolve /\ IsRelative(res.importPath)) =>
        LET order == ProbeOrder(ResolvedBase)
            hits == {i \in 1..Len(order) : existsSync(order[i])}
            first == CHOOSE i \in hits : \A j \in hits : i <= j
        IN  /\ hits = {} => res.ret.resolvedPath = Null
            /\ hits # {} =>
                   res.ret.resolvedPath =
                       (IF first = Len(order) THEN ResolvedBase ELSE order[first])
            /\ existsSync(ResolvedBase \o <<".","t","s">>) =>
                   res.ret.resolvedPath = ResolvedBase \o <<".","t","s">>

C1_Witness ==
    /\ IsResolve /\ IsRelative(res.importPath)
    /\ existsSync(ResolvedBase) /\ existsSync(ResolvedBase \o <<".","t","s">>)
    /\ res.ret.resolvedPath = ResolvedBase \o <<".","t","s">>

\* C2 (as claimed): resolve("./x", f) names the concrete file that matched: x.ts when
\* x.ts exists, x/index.ts when only the directory x with index.ts exists; and it
\* returns exists=false with an error when no candidate exists.
C2_ConcreteFile ==
    (IsResolve /\ res.importPath = SpecX) =>
        LET base == ResolvedBase
            order == ProbeOrder(base)
            indexTs == base \o <<"/">> \o IndexName \o <<".","t","s">>
        IN  /\ (base \o <<".","t","s">>) \in DOMAIN fs =>
                   res.ret.exists /\ res.ret.resolvedPath = base \o <<".","t","s">>
            /\ (indexTs \in DOMAIN fs /\ \A i \in 1..8 : order[i] \notin DOMAIN fs) =>
                   res.ret.exists /\ res.ret.resolvedPath = indexTs
            /\ (\A i \in 1..Len(order) : ~existsSync(order[i])) =>
                   ~res.ret.exists /\ "error" \in DOMAIN res.ret

\* the part of C2 that the code does satisfy is reached: x.ts exists and is returned
C2_Witness ==
    /\ IsResolve /\ res.importPath = SpecX
    /\ (ResolvedBase \o <<".","t","s">>) \in DOMAIN fs
    /\ res.ret.resolvedPath = ResolvedBase \o <<".","t","s">>

\* C3: a specifier that starts with neither '.' nor '/' resolves to itself with
\* exists=true, whatever the originating file and the file system hold, and no
\* existence probe is made.
C3_BareResolvesToItself ==
    (IsResolve /\ ~IsRelative(res.importPath)) =>
        /\ res.ret = [resolvedPath |-> res.importPath, exists |-> TRUE]
        /\ res.probes = <<>>

C3_Witness ==
    /\ IsResolve /\ res.importPath = SpecBareX /\ res.fromFile = FileA
    /\ PathX \notin DOMAIN fs /\ ~existsSync(PathX) /\ DOMAIN fs # {}
    /\ res.ret.exists /\ res.ret.resolvedPath = SpecBareX

\* C4: a failed resolution is a returned value: exists=false exactly when
\* resolvedPath is null; a failed result carries an error naming the specifier and
\* the originating file and an alternatives list; a successful one carries no error.
C4_FailureIsAValue ==
    IsResolve =>
        /\ "ret" \in DOMAIN res
        /\ (res.ret.exists = FALSE) <=> (res.ret.resolvedPath = Null)
        /\ ~res.ret.exists =>
               /\ DOMAIN res.ret = {"resolvedPath", "exists", "alternatives", "error"}
               /\ res.ret.error.importPath = res.importPath
               /\ res.ret.error.fromFile = res.fromFile
               /\ DOMAIN res.ret.alternatives = 1..Len(res.ret.alternatives)
        /\ res.ret.exists => DOMAIN res.ret = {"resolvedPath", "exists"}

C4_Witness ==
    /\ IsResolve /\ ~res.ret.exists /\ res.ret.resolvedPath = Null
    /\ res.importPath = SpecX /\ DOMAIN fs # {}

----------------------------------------------------------------------------
(* Source texts and the parser *)

ImportDeclaration(source, specifiers) ==
    [type |-> "ImportDeclaration", source |-> source, specifiers |-> specifiers,
     importKind |-> "value"]
\* callee is a node: the Identifier of require(...), the Import of import(...);
\* arguments are the values of string literals
CallExpression(callee, arguments) ==
    [type |-> "CallExpression", callee |-> callee, arguments |-> arguments]
Import == [type |-> "Import", name |-> "import"]
Param(name, optional) == [name |-> name, optional |-> optional, typeAnnotation |-> "undefined"]

TextBad == "export function ("
TextFn == "export function f(a, b?) {}"
TextVar == "export const x = 1"
TextImport == "import { x } from './x'"
TextCalls == "import('./x'); require('./x')"
TextBare == "import { readFileSync } from 'fs'"
TextMixed == "interface I {}; type T = I; const x = 1; export { x }; export default class C {}"
Texts == {TextBad, TextFn, TextVar, TextImport, TextCalls}
QueryTexts == {TextBad, TextFn, TextVar}

SyntaxErrorMessage == "Unexpected token (1:16)"

\* parser.parse(code, {sourceType: "module", plugins: ["typescript", "jsx"]})
parserParse(code) ==
    IF code = TextFn
    THEN [raised |-> FALSE,
          ret |-> File(<<ExportNamedDeclaration(
                            FunctionDeclaration("f", <<Param("a", FALSE), Param("b", TRUE)>>),
                            <<>>)>>)]
    ELSE IF code = TextVar
    THEN [raised |-> FALSE,
          ret |-> File(<<ExportNamedDeclaration(VariableDeclaration(<<"x">>), <<>>)>>)]
    ELSE IF code = TextImport
    THEN [raised |-> FALSE, ret |-> File(<<ImportDeclaration(SpecX, <<"x">>)>>)]
    ELSE IF code = TextBare
    THEN [raised |-> FALSE, ret |-> File(<<ImportDeclaration(SpecFs, <<"readFileSync">>)>>)]
    ELSE IF code = TextCalls
    THEN [raised |-> FALSE,
          ret |-> File(<<CallExpression(Import, <<SpecX>>),
                         CallExpression(Identifier("require"), <<SpecX>>)>>)]
    ELSE IF code = TextMixed
    THEN [raised |-> FALSE,
          ret |-> File(<<TSInterfaceDeclaration("I"),
                         TSTypeAliasDeclaration("T"),
                         VariableDeclaration(<<"x">>),
                         ExportNamedDeclaration(NoNode, <<ExportSpecifier("x", "x")>>),
                         ExportDefaultDeclaration(ClassDeclaration("C", <<>>))>>)]
    ELSE [raised |-> TRUE,
          error |-> [name |-> "SyntaxError", message |-> SyntaxErrorMessage]]

----------------------------------------------------------------------------
(* Errors *)

AnalysisError(message, filePath) ==
    [name |-> "AnalysisError", message |-> message, filePath |-> filePath]

ENOENT == [name |-> "Error", message |-> "ENOENT: no such file or directory"]

\* what a call yields: a value or a raised error, and the caches it leaves
Returned(value, c, ic, ec) ==
    [raised |-> FALSE, ret |-> value, cache |-> c, importsCache |-> ic, exportsCache |-> ec]
Raised(error, c, ic, ec) ==
    [raised |-> TRUE, error |-> error, cache |-> c, importsCache |-> ic, exportsCache |-> ec]

----------------------------------------------------------------------------
(* ASTAnalyzer.parse, parseFile, clearCache; c is the analyzer's cache *)

\* the try block of parse once the cache holds no entry: parse, store, return
parseUncached(c, parsed, filePath) ==
    IF parsed.raised
    THEN [raised |-> TRUE,
          error |-> AnalysisError("Failed to parse file: " \o parsed.error.message, filePath),
          cache |-> c]
    ELSE [raised |-> FALSE, ret |-> parsed.ret, cache |-> MapSet(c, filePath, parsed.ret)]

\* a variant that parses without consulting the cache
parse_ignoresCache(c, code, filePath) ==
    parseUncached(c, parserParse(code), filePath)

parse(c, code, filePath) ==
    IF Has(c, filePath)
    THEN [raised |-> FALSE, ret |-> c[filePath], cache |-> c]
    ELSE parseUncached(c, parserParse(code), filePath)

\* readFileSync(filePath, "utf-8")
readFileSync(filePath) ==
    IF filePath \in DOMAIN fs
    THEN [raised |-> FALSE, ret |-> fs[filePath]]
    ELSE [raised |-> TRUE, error |-> ENOENT]

\* the try block of parseFile: the file is read before parse consults the cache
parseFileTry(c, code, filePath) ==
    IF code.raised
    THEN [raised |-> TRUE, error |-> code.error, cache |-> c]
    ELSE parse(c, code.ret, filePath)

\* catch (error) { if (error instanceof AnalysisError) throw error; throw new ... }
parseFileCatch(tried, filePath) ==
    IF tried.raised /\ tried.error.name # "AnalysisError"
    THEN [tried EXCEPT !.error =
             AnalysisError("Failed to read file: " \o tried.error.message, filePath)]
    ELSE tried

parseFile(c, filePath) ==
    parseFileCatch(parseFileTry(c, readFileSync(filePath), filePath), filePath)

----------------------------------------------------------------------------
(* ImportTracker.extractImports, extractExports, findExportingFile, clearCache *)

\* the members of class ASTAnalyzer
ASTAnalyzerMembers ==
    {"cache", "parse", "parseFile", "extractSymbols", "extractFunctionSignatures",
     "findReferences", "generateFunctionSignature", "generateMethodSignature",
     "extractTypeAnnotation", "extractReturnType", "tsTypeToString", "clearCache",
     "getCacheSize"}

NotAFunction(member) ==
    [name |-> "TypeError", message |-> "this.analyzer." \o member \o " is not a function"]

\* the visitor object names CallExpression twice: the later property, the require
\* handler, is the one it holds
RECURSIVE CollectImports(_, _)
CollectImports(body, line) ==
    IF line > Len(body) THEN <<>>
    ELSE (IF body[line].type = "ImportDeclaration"
          THEN <<[path |-> body[line].source, source |-> body[line].source,
                  specifiers |-> body[line].specifiers,
                  isTypeOnly |-> (body[line].importKind = "type"), line |-> line]>>
          ELSE IF body[line].type = "CallExpression"
                  /\ body[line].callee.type = "Identifier"
                  /\ body[line].callee.name = "require"
                  /\ Len(body[line].arguments) > 0
          THEN <<[path |-> body[line].arguments[1], source |-> body[line].arguments[1],
                  specifiers |-> <<"require">>, isTypeOnly |-> FALSE, line |-> line]>>
          ELSE <<>>)
         \o CollectImports(body, line + 1)

RECURSIVE CollectExports(_, _, _)
CollectExports(body, line, filePath) ==
    IF line > Len(body) THEN <<>>
    ELSE LET stmt == body[line]
             d == stmt.declaration
             named ==
                 IF d.type = "FunctionDeclaration" /\ d.id # NoId
                 THEN <<[name |-> d.id, type |-> "function", filePath |-> filePath,
                         line |-> line, signature |-> generateFunctionSignature(d)]>>
                 ELSE IF d.type = "ClassDeclaration" /\ d.id # NoId
                 THEN <<[name |-> d.id, type |-> "class", filePath |-> filePath,
                         line |-> line]>>
                 ELSE IF d.type = "VariableDeclaration"
                 THEN [i \in 1..Len(d.declarations) |->
                          [name |-> d.declarations[i], type |-> "variable",
                           filePath |-> filePath, line |-> line]]
                 ELSE IF d.type = "TSTypeAliasDeclaration"
                 THEN <<[name |-> d.id, type |-> "type", filePath |-> filePath,
                         line |-> line]>>
                 ELSE IF d.type = "TSInterfaceDeclaration"
                 THEN <<[name |-> d.id, type |-> "interface", filePath |-> filePath,
                         line |-> line]>>
                 ELSE <<>>
             default ==
                 IF d.type = "FunctionDeclaration" /\ d.id # NoId
                 THEN <<[name |-> "default", type |-> "function", filePath |-> filePath,
                         line |-> line, signature |-> generateFunctionSignature(d)]>>
                 ELSE IF d.type = "ClassDeclaration" /\ d.id # NoId
                 THEN <<[name |-> "default", type |-> "class", filePath |-> filePath,
                         line |-> line]>>
                 ELSE IF d.type = "Identifier"
                 THEN <<[name |-> "default", type |-> "variable", filePath |-> filePath,
                         line |-> line]>>
                 ELSE <<>>
         IN (IF stmt.type = "ExportNamedDeclaration"
             THEN named \o [i \in 1..Len(stmt.specifiers) |->
                               [name |-> stmt.specifiers[i].exported, type |-> "variable",
                                filePath |-> filePath, line |-> line]]
             ELSE IF stmt.type = "ExportDefaultDeclaration" THEN default
             ELSE <<>>)
            \o CollectExports(body, line + 1, filePath)

\* an export visitor reads this.analyzer to render the signature of a function
ExportsReadThis(body) ==
    \E i \in 1..Len(body) :
        /\ body[i].type \in ExportTypes
        /\ body[i].declaration.type = "FunctionDeclaration"
        /\ body[i].declaration.id # NoId

\* this.analyzer["traverse"](ast, visitors): ASTAnalyzer has no member traverse
analyzerTraverse(collected, readsThis) ==
    IF "traverse" \notin ASTAnalyzerMembers
    THEN [raised |-> TRUE, error |-> NotAFunction("traverse")]
    ELSE IF readsThis /\ visitorThis # "tracker"
    THEN [raised |-> TRUE, error |-> TypeErrorOf("analyzer")]
    ELSE [raised |-> FALSE, ret |-> collected]

\* a variant of the catch block that wraps every error
extractImportsCatch_alwaysWraps(error, filePath) ==
    AnalysisError("Failed to extract imports: " \o error.message, filePath)

\* catch (error) { if (error instanceof AnalysisError) throw error; throw new ... }
extractImportsCatch(error, filePath) ==
    IF error.name = "AnalysisError" THEN error
    ELSE AnalysisError("Failed to extract imports: " \o error.message, filePath)

extractExportsCatch(error, filePath) ==
    IF error.name = "AnalysisError" THEN error
    ELSE AnalysisError("Failed to extract exports: " \o error.message, filePath)

\* the rest of extractImports once the imports cache holds no entry
extractImportsFrom(parsed, walked, ic, ec, filePath) ==
    IF parsed.raised
    THEN Raised(extractImportsCatch(parsed.error, filePath), parsed.cache, ic, ec)
    ELSE IF walked.raised
    THEN Raised(extractImportsCatch(walked.error, filePath), parsed.cache, ic, ec)
    ELSE Returned(walked.ret, parsed.cache, MapSet(ic, filePath, walked.ret), ec)

\* the tree handed to traverse; nothing is walked when parseFile raised
BodyOf(parsed) == IF parsed.raised THEN <<>> ELSE parsed.ret.body

importsWalk(parsed) == analyzerTraverse(CollectImports(BodyOf(parsed), 1), FALSE)

extractImportsParsed(parsed, ic, ec, filePath) ==
    extractImportsFrom(parsed, importsWalk(parsed), ic, ec, filePath)

\* c is the cache of the tracker's analyzer, ic the imports cache, ec the exports cache
extractImports(c, ic, ec, filePath) ==
    IF Has(ic, filePath) THEN Returned(ic[filePath], c, ic, ec)
    ELSE extractImportsParsed(parseFile(c, filePath), ic, ec, filePath)

\* the rest of extractExports once the exports cache holds no entry
extractExportsFrom(parsed, walked, ic, ec, filePath) ==
    IF parsed.raised
    THEN Raised(extractExportsCatch(parsed.error, filePath), parsed.cache, ic, ec)
    ELSE IF walked.raised
    THEN Raised(extractExportsCatch(walked.error, filePath), parsed.cache, ic, ec)
    ELSE Returned(walked.ret, parsed.cache, ic, MapSet(ec, filePath, walked.ret))

exportsWalk(parsed, filePath) ==
    analyzerTraverse(CollectExports(BodyOf(parsed), 1, filePath),
                     ExportsReadThis(BodyOf(parsed)))

extractExportsParsed(parsed, ic, ec, filePath) ==
    extractExportsFrom(parsed, exportsWalk(parsed, filePath), ic, ec, filePath)

extractExports(c, ic, ec, filePath) ==
    IF Has(ec, filePath) THEN Returned(ec[filePath], c, ic, ec)
    ELSE extractExportsParsed(parseFile(c, filePath), ic, ec, filePath)

RECURSIVE findExportingFile(_, _, _, _, _)
findExportingFile(c, ic, ec, symbolName, searchPaths) ==
    IF searchPaths = <<>> THEN Returned(Null, c, ic, ec)
    ELSE LET exports == extractExports(c, ic, ec, Head(searchPaths))
         IN  IF exports.raised THEN exports
             ELSE IF \E i \in 1..Len(exports.ret) : exports.ret[i].name = symbolName
             THEN Returned(Head(searchPaths), exports.cache, exports.importsCache,
                           exports.exportsCache)
             ELSE findExportingFile(exports.cache, exports.importsCache,
                                    exports.exportsCache, symbolName, Tail(searchPaths))

----------------------------------------------------------------------------
(* ASTAnalyzer.extractFunctionSignatures and SignatureValidator *)

\* the named function declarations and class methods of a file, in traversal order
RECURSIVE FunctionNodes(_, _)
FunctionNodes(order, k) ==
    IF k > Len(order) THEN <<>>
    ELSE LET n == order[k].node
             here ==
                 IF n.type = "FunctionDeclaration" /\ n.id # NoId
                 THEN <<[name |-> n.id, params |-> n.params, returnType |-> n.returnType,
                         async |-> n.async, generator |-> n.generator,
                         line |-> order[k].line]>>
                 ELSE IF n.type = "ClassDeclaration"
                 THEN [i \in 1..Len(n.methods) |->
                          [name |-> n.methods[i], params |-> <<>>, returnType |-> "undefined",
                           async |-> FALSE, generator |-> FALSE, line |-> order[k].line]]
                 ELSE <<>>
         IN here \o FunctionNodes(order, k + 1)

\* both visitors read this.extractTypeAnnotation / this.extractReturnType
extractFunctionSignatures(ast, filePath) ==
    LET fns == FunctionNodes(PreOrder(ast), 1)
    IN  IF fns # <<>> /\ visitorThis # "analyzer"
        THEN [raised |-> TRUE,
              error |-> TypeErrorOf(IF fns[1].params # <<>> THEN "extractTypeAnnotation"
                                    ELSE "extractReturnType")]
        ELSE [raised |-> FALSE,
              ret |-> [i \in 1..Len(fns) |->
                  [name |-> fns[i].name,
                   parameters |-> [j \in 1..Len(fns[i].params) |->
                       [name |-> fns[i].params[j].name,
                        type |-> fns[i].params[j].typeAnnotation,
                        optional |-> fns[i].params[j].optional]],
                   returnType |-> fns[i].returnType,
                   filePath |-> filePath,
                   line |-> fns[i].line,
                   isAsync |-> fns[i].async,
                   isGenerator |-> fns[i].generator]]]

\* catch (error) { return []; }
getSignaturesCatch(error) == [raised |-> FALSE, ret |-> <<>>]

\* the error the try block of getSignatures raised
getSignaturesError(parsed, sigs) == IF parsed.raised THEN parsed.error ELSE sigs.error

\* the rest of getSignatures once the signature cache holds no entry
getSignaturesFrom(parsed, sigs, sc, filePath) ==
    IF parsed.raised \/ sigs.raised
    THEN getSignaturesCatch(getSignaturesError(parsed, sigs))
             @@ [signatureCache |-> sc, cache |-> parsed.cache]
    ELSE [raised |-> FALSE, ret |-> sigs.ret,
          signatureCache |-> MapSet(sc, filePath, sigs.ret), cache |-> parsed.cache]

signaturesOf(parsed, filePath) ==
    IF parsed.raised THEN [raised |-> FALSE, ret |-> <<>>]
    ELSE extractFunctionSignatures(parsed.ret, filePath)

getSignaturesParsed(parsed, sc, filePath) ==
    getSignaturesFrom(parsed, signaturesOf(parsed, filePath), sc, filePath)

\* sc is the signature cache, c the cache of the validator's analyzer
getSignatures(sc, c, filePath) ==
    IF Has(sc, filePath)
    THEN [raised |-> FALSE, ret |-> sc[filePath], signatureCache |-> sc, cache |-> c]
    ELSE getSignaturesParsed(parseFile(c, filePath), sc, filePath)

formatSignature(signature) ==
    LET params == JoinComma([i \in 1..Len(signature.parameters) |->
                      LET q == signature.parameters[i]
                          name == IF q.optional THEN q.name \o "?" ELSE q.name
                      IN  IF q.type # "undefined" THEN name \o ": " \o q.type ELSE name])
        s1 == IF signature.isAsync THEN "async " \o signature.name ELSE signature.name
        s2 == s1 \o "(" \o params \o ")"
    IN  IF signature.returnType # "undefined" THEN s2 \o ": " \o signature.returnType ELSE s2

Undefined == <<"undefined">>

CountRequired(parameters) == Cardinality({i \in 1..Len(parameters) : ~parameters[i].optional})

\* `${functionName}(${args.join(", ")})`
ActualSignature(functionName, args) == functionName \o "(" \o JoinComma(args) \o ")"

\* signatures.find((sig) => sig.name === functionName): the index of the first match
FindSignature(signatures, functionName) ==
    LET hits == {i \in 1..Len(signatures) : signatures[i].name = functionName}
    IN  IF hits = {} THEN 0 ELSE CHOOSE i \in hits : \A j \in hits : i <= j

\* the argument-count comparison against the matching signature
compareArity(matching, actual, actualArgsCount) ==
    IF actualArgsCount < CountRequired(matching.parameters)
    THEN [valid |-> FALSE, expectedSignature |-> formatSignature(matching),
          actualSignature |-> actual,
          error |-> [template |-> "Expected at least ${expectedMinArgs} arguments, got ${actualArgsCount}",
                     expected |-> CountRequired(matching.parameters),
                     got |-> actualArgsCount],
          confidence |-> 1]
    ELSE IF actualArgsCount > Len(matching.parameters)
    THEN [valid |-> FALSE, expectedSignature |-> formatSignature(matching),
          actualSignature |-> actual,
          error |-> [template |-> "Expected at most ${expectedMaxArgs} arguments, got ${actualArgsCount}",
                     expected |-> Len(matching.parameters),
                     got |-> actualArgsCount],
          confidence |-> 1]
    ELSE [valid |-> TRUE, expectedSignature |-> formatSignature(matching),
          actualSignature |-> actual, confidence |-> 1]

\* the try/catch of validateFunctionCall around the signatures getSignatures yielded
validateAgainst(got, found, functionName, args, filePath) ==
    IF got.raised
    THEN [valid |-> FALSE, actualSignature |-> ActualSignature(functionName, args),
          error |-> [template |-> "Failed to validate: ${error.message}",
                     message |-> got.error.message],
          confidence |-> 0]
    ELSE IF found = 0
    THEN [valid |-> FALSE, actualSignature |-> ActualSignature(functionName, args),
          error |-> [template |-> "Function '${functionName}' not found in ${filePath}",
                     functionName |-> functionName, filePath |-> filePath],
          confidence |-> 0]
    ELSE compareArity(got.ret[found], ActualSignature(functionName, args), Len(args))

validateLookedUp(got, functionName, args, filePath) ==
    [ret |-> validateAgainst(got,
                             IF got.raised THEN 0 ELSE FindSignature(got.ret, functionName),
                             functionName, args, filePath),
     signatureCache |-> got.signatureCache, cache |-> got.cache]

validateFunctionCall(sc, c, functionName, args, filePath) ==
    IF filePath = Undefined \/ filePath = <<>>
    THEN [ret |-> [valid |-> FALSE, actualSignature |-> ActualSignature(functionName, args),
                   error |-> [template |-> "No file path provided for signature lookup"],
                   confidence |-> 0],
          signatureCache |-> sc, cache |-> c]
    ELSE validateLookedUp(getSignatures(sc, c, filePath), functionName, args, filePath)

----------------------------------------------------------------------------
(* The engine: the file system, the analyzers, the tracker and the validator *)

SourceFiles == {FileA, PathXts}
SymbolNames == {"f", "g"}
ArgLists == UNION {[1..n -> {"1"}] : n \in 0..MaxArgs}
SearchPathLists == {<<>>, <<FileA>>, <<PathXts>>, <<FileA, PathXts>>, <<PathXts, FileA>>}

Parse(a, code, filePath) ==
    LET out == parse(cache[a], code, filePath)
    IN  /\ cache' = [cache EXCEPT ![a] = out.cache]
        /\ res' = IF out.raised
                  THEN [op |-> "parse", analyzer |-> a, code |-> code, filePath |-> filePath,
                        raised |-> TRUE, error |-> out.error]
                  ELSE [op |-> "parse", analyzer |-> a, code |-> code, filePath |-> filePath,
                        raised |-> FALSE, ret |-> out.ret]
        /\ UNCHANGED <<fs, importsCache, exportsCache, signatureCache, trav, serverVars>>

ParseFile(a, filePath) ==
    LET out == parseFile(cache[a], filePath)
    IN  /\ cache' = [cache EXCEPT ![a] = out.cache]
        /\ res' = IF out.raised
                  THEN [op |-> "parseFile", analyzer |-> a, filePath |-> filePath,
                        raised |-> TRUE, error |-> out.error]
                  ELSE [op |-> "parseFile", analyzer |-> a, filePath |-> filePath,
                        raised |-> FALSE, ret |-> out.ret]
        /\ UNCHANGED <<fs, importsCache, exportsCache, signatureCache, trav, serverVars>>

\* ASTAnalyzer.clearCache
AnalyzerClearCache(a) ==
    /\ cache' = [cache EXCEPT ![a] = EmptyMap]
    /\ res' = [op |-> "clearCache", analyzer |-> a]
    /\ UNCHANGED <<fs, importsCache, exportsCache, signatureCache, trav, serverVars>>

TrackerOutcome(op, out) ==
    /\ cache' = [cache EXCEPT !["tracker"] = out.cache]
    /\ importsCache' = out.importsCache
    /\ exportsCache' = out.exportsCache
    /\ res' = IF out.raised
              THEN op @@ [raised |-> TRUE, error |-> out.error]
              ELSE op @@ [raised |-> FALSE, ret |-> out.ret]
    /\ UNCHANGED <<fs, signatureCache, trav, serverVars>>

ExtractImports(filePath) ==
    TrackerOutcome([op |-> "extractImports", filePath |-> filePath],
                   extractImports(cache["tracker"], importsCache, exportsCache, filePath))

ExtractExports(filePath) ==
    TrackerOutcome([op |-> "extractExports", filePath |-> filePath],
                   extractExports(cache["tracker"], importsCache, exportsCache, filePath))

FindExportingFile(symbolName, searchPaths) ==
    TrackerOutcome([op |-> "findExportingFile", symbolName |-> symbolName,
                    searchPaths |-> searchPaths],
                   findExportingFile(cache["tracker"], importsCache, exportsCache,
                                     symbolName, searchPaths))

\* ImportTracker.clearCache
TrackerClearCache ==
    /\ exportsCache' = EmptyMap
    /\ importsCache' = EmptyMap
    /\ cache' = [cache EXCEPT !["tracker"] = EmptyMap]
    /\ res' = [op |-> "ImportTracker.clearCache"]
    /\ UNCHANGED <<fs, signatureCache, trav, serverVars>>

ValidateFunctionCall(functionName, args, filePath) ==
    LET out == validateFunctionCall(signatureCache, cache["validator"],
                                    functionName, args, filePath)
    IN  /\ signatureCache' = out.signatureCache
        /\ cache' = [cache EXCEPT !["validator"] = out.cache]
        /\ res' = [op |-> "validateFunctionCall", functionName |-> functionName,
                   args |-> args, filePath |-> filePath, ret |-> out.ret]
        /\ UNCHANGED <<fs, importsCache, exportsCache, trav, serverVars>>

\* SignatureValidator.clearCache
ValidatorClearCache ==
    /\ signatureCache' = EmptyMap
    /\ cache' = [cache EXCEPT !["validator"] = EmptyMap]
    /\ res' = [op |-> "SignatureValidator.clearCache"]
    /\ UNCHANGED <<fs, importsCache, exportsCache, trav, serverVars>>

Init ==
    /\ fs = EmptyMap
    /\ InitCaches
    /\ InitManager
    /\ InitTools
    /\ trav = NoTraversal
    /\ res = [op |-> "init"]

\* the import tracker over a changing disk
NextTracker ==
    \/ \E p \in SourceFiles, text \in Texts : WriteFile(p, text)
    \/ \E p \in SourceFiles : DeleteFile(p)
    \/ \E p \in SourceFiles : ExtractImports(p)
    \/ \E p \in SourceFiles : ExtractExports(p)
    \/ \E n \in SymbolNames, ps \in SearchPathLists : FindExportingFile(n, ps)
    \/ TrackerClearCache

SpecTracker == Init /\ [][NextTracker]_vars

\* the single-file queries of the tracker and the validator side by side
Next ==
    \/ \E p \in SourceFiles, text \in QueryTexts : WriteFile(p, text)
    \/ \E p \in SourceFiles : DeleteFile(p)
    \/ \E p \in SourceFiles : ExtractImports(p)
    \/ \E p \in SourceFiles : ExtractExports(p)
    \/ \E ps \in {<<FileA>>, <<PathXts, FileA>>} : FindExportingFile("f", ps)
    \/ TrackerClearCache
    \/ \E args \in ArgLists, p \in SourceFiles \cup {Undefined} :
           ValidateFunctionCall("f", args, p)
    \/ ValidatorClearCache

\* an analyzer used directly
NextAnalyzer ==
    \/ \E p \in SourceFiles, text \in Texts : WriteFile(p, text)
    \/ \E p \in SourceFiles : DeleteFile(p)
    \/ \E code \in Texts, p \in SourceFiles : Parse("standalone", code, p)
    \/ \E p \in SourceFiles : ParseFile("standalone", p)
    \/ AnalyzerClearCache("standalone")

SpecAnalyzer == Init /\ [][NextAnalyzer]_vars

Spec == Init /\ [][Next]_vars

----------------------------------------------------------------------------
(* The symbol extractor on its own *)

\* a parameter with a type annotation, as in (a: number)
TypedParam(name, optional, type) ==
    [name |-> name, optional |-> optional, typeAnnotation |-> type]

\* the tree of `export function add(a: number, b: number) {}`
TreeAdd ==
    File(<<ExportNamedDeclaration(
              FunctionDeclaration("add", <<TypedParam("a", FALSE, "number"),
                                           TypedParam("b", FALSE, "number")>>),
              <<>>)>>)

InitSym ==
    /\ fs = EmptyMap
    /\ InitCaches
    /\ InitManager
    /\ InitTools
    /\ trav = NoTraversal
    /\ res = [op |-> "init"]

NextSym ==
    \/ \E ast \in Trees \cup {TreeAdd} : ExtractSymbolsCall(ast, FileA)
    \/ VisitFunctionDeclaration
    \/ VisitVariableDeclaration
    \/ VisitClassDeclaration
    \/ VisitTSInterfaceDeclaration
    \/ VisitTSTypeAliasDeclaration
    \/ VisitExportNamedDeclaration
    \/ VisitExportDefaultDeclaration
    \/ ExtractSymbolsReturn

SpecSym == InitSym /\ [][NextSym]_vars

----------------------------------------------------------------------------
(* The symbol extractor on parsed files: parse, extract, clear, parse and extract again *)

ExtractTexts == {TextBad, TextFn, TextVar, TextMixed}

NoOutcome == [done |-> FALSE, raised |-> FALSE, ret |-> <<>>]

\* what the last extraction yielded, when it was an extraction of an equal tree
Earlier(ast) ==
    IF trav.status \in {"returned", "raised"} /\ trav.ast = ast
    THEN [done |-> TRUE, raised |-> trav.status = "raised", ret |-> trav.symbols]
    ELSE NoOutcome

\* a variant that keeps the list of the extraction before
symbolsAtEntry_kept(earlier) == earlier.ret

\* const symbols: SymbolInfo[] = []
symbolsAtEntry(earlier) == <<>>

\* extractSymbols(ast, filePath), by a caller that holds on to what the extraction
\* before yielded
ExtractSymbolsOf(ast, filePath) ==
    /\ trav.status # "running"
    /\ trav' = [status |-> "running", ast |-> ast, filePath |-> filePath,
                order |-> PreOrder(ast), pos |-> 0,
                symbols |-> symbolsAtEntry(Earlier(ast)), first |-> Earlier(ast)]
    /\ res' = [op |-> "traverse", ast |-> ast]
    /\ UNCHANGED <<fs, cacheVars, serverVars>>

\* const ast = analyzer.parse(code, filePath); analyzer.extractSymbols(ast, filePath)
ExtractSymbolsOfParsed ==
    /\ res.op = "parse"
    /\ ~res.raised
    /\ ExtractSymbolsOf(res.ret, res.filePath)

\* a second extraction from the tree in hand
ExtractSymbolsAgain ==
    /\ trav.status \in {"returned", "raised"}
    /\ ExtractSymbolsOf(trav.ast, trav.filePath)

NextExtract ==
    \/ \E code \in ExtractTexts : Parse("standalone", code, FileA)
    \/ AnalyzerClearCache("standalone")
    \/ ExtractSymbolsOfParsed
    \/ ExtractSymbolsAgain
    \/ VisitFunctionDeclaration
    \/ VisitVariableDeclaration
    \/ VisitClassDeclaration
    \/ VisitTSInterfaceDeclaration
    \/ VisitTSTypeAliasDeclaration
    \/ VisitExportNamedDeclaration
    \/ VisitExportDefaultDeclaration
    \/ ExtractSymbolsReturn

SpecExtract == InitSym /\ [][NextExtract]_vars

----------------------------------------------------------------------------
(* Claims about the symbol extractor, checked under SpecSym *)

\* the declaration a returned symbol was created for is exported by an export
\* statement of the file
ExportedByStatement(ast, s) ==
    LET stmt == ast.body[s.line]
        d == IF stmt.type \in ExportTypes THEN stmt.declaration ELSE stmt
        isMethod == d.type = "ClassDeclaration" /\ s.type = "function"
    IN  /\ ~isMethod
        /\ \/ stmt.type = "ExportNamedDeclaration"
           \/ stmt.type = "ExportDefaultDeclaration"
           \/ \E j \in 1..Len(ast.body) :
                  /\ ast.body[j].type = "ExportNamedDeclaration"
                  /\ \E k \in 1..Len(ast.body[j].specifiers) :
                         ast.body[j].specifiers[k].local = s.name

\* C5 (as claimed): after extractSymbols, the Symbol of every exported function
\* declaration has exported=true, and every Symbol of a declaration that no export
\* statement exports has exported=false, also when symbols share a name.
C5_ExportedFlag ==
    res.op = "extractSymbols" =>
        /\ \A line \in 1..Len(res.ast.body) :
               LET stmt == res.ast.body[line]
               IN  (stmt.type \in ExportTypes
                      /\ stmt.declaration.type = "FunctionDeclaration"
                      /\ stmt.declaration.id # NoId) =>
                       /\ ~res.raised
                       /\ \E k \in 1..Len(res.ret) :
                              /\ res.ret[k].name = stmt.declaration.id
                              /\ res.ret[k].type = "function"
                              /\ res.ret[k].line = line
                              /\ res.ret[k].exported
        /\ ~res.raised =>
               \A k \in 1..Len(res.ret) :
                   ~ExportedByStatement(res.ast, res.ret[k]) => ~res.ret[k].exported

\* C6 (as claimed): an export visitor does its lookup only after every declaration
\* of the file has been collected, so a declaration that an export statement exports
\* ends up exported=true wherever the export statement stands.
C6_PromotionAfterDeclarations ==
    /\ trav.status # "idle" =>
           \A i \in 1..trav.pos :
               trav.order[i].node.type \in ExportTypes =>
                   \A j \in (i + 1)..Len(trav.order) :
                       trav.order[j].node.type \notin DeclarationTypes
    /\ (res.op = "extractSymbols" /\ ~res.raised) =>
           \A k \in 1..Len(res.ret) :
               ExportedByStatement(res.ast, res.ret[k]) => res.ret[k].exported

----------------------------------------------------------------------------
(* Claims about the parser cache, checked under SpecAnalyzer *)

IsParseCall(r) == r.op \in {"parse", "parseFile"} /\ r.analyzer = "standalone"

\* what a parse of text yields when no tree is stored under path
FreshParse(r, text) ==
    IF parserParse(text).raised
    THEN /\ r.raised
         /\ r.error = AnalysisError("Failed to parse file: " \o parserParse(text).error.message,
                                    r.filePath)
         /\ cache' = cache
    ELSE /\ ~r.raised
         /\ r.ret = parserParse(text).ret
         /\ cache'["standalone"] = MapSet(cache["standalone"], r.filePath, r.ret)

\* a call that finds no stored tree parses the text it is given (parse) or the
\* current content of the file (parseFile), and clearCache leaves no tree behind
UncachedAndClear(r) ==
    /\ (r.op = "parse" /\ IsParseCall(r) /\ ~Has(cache["standalone"], r.filePath)) =>
           FreshParse(r, r.code)
    /\ (r.op = "parseFile" /\ IsParseCall(r) /\ ~Has(cache["standalone"], r.filePath)
          /\ r.filePath \in DOMAIN fs) =>
           FreshParse(r, fs[r.filePath])
    /\ r.op = "clearCache" => cache'["standalone"] = EmptyMap

\* C7 (as claimed): the parser cache is keyed by path only; once a tree is stored
\* under a path, every later parse and every later parseFile of that path returns
\* the stored tree, whatever the text, until clearCache; a call that finds no
\* stored tree parses the current text and stores the result.
C7_StoredTreeAlways ==
    [][ /\ (IsParseCall(res') /\ Has(cache["standalone"], res'.filePath)) =>
               /\ ~res'.raised
               /\ res'.ret = cache["standalone"][res'.filePath]
               /\ cache' = cache
        /\ UncachedAndClear(res') ]_vars

\* C7 (amended): every later parse of a path with a stored tree returns the stored
\* tree whatever the text, and so does every later parseFile while the file can
\* still be read; parseFile reads the file before the cache is consulted, so for a
\* file that can no longer be read it raises the read failure and keeps the tree.
C7_StoredTreeWhileReadable ==
    [][ /\ (IsParseCall(res') /\ Has(cache["standalone"], res'.filePath)) =>
               IF res'.op = "parse" \/ res'.filePath \in DOMAIN fs
               THEN /\ ~res'.raised
                    /\ res'.ret = cache["standalone"][res'.filePath]
                    /\ cache' = cache
               ELSE /\ res'.raised
                    /\ res'.error =
                           AnalysisError("Failed to read file: " \o ENOENT.message,
                                         res'.filePath)
                    /\ cache' = cache
        /\ UncachedAndClear(res') ]_vars

\* a parseFile returned a stored tree that differs from what the file now holds
C7_Witness ==
    /\ res.op = "parseFile" /\ ~res.raised
    /\ res.filePath \in DOMAIN fs
    /\ fs[res.filePath] \in {TextBad, TextVar}
    /\ res.ret = parserParse(TextFn).ret

----------------------------------------------------------------------------
(* Claims about the tracker's caches and errors, checked under SpecTracker *)

\* the file holds text that parses and the tracker holds nothing for it
FreshAndParseable(p, perFile) ==
    /\ p \in DOMAIN fs
    /\ ~parserParse(fs[p]).raised
    /\ ~Has(perFile, p)
    /\ ~Has(cache["tracker"], p)

\* C8 (as claimed): once extractImports(f) (resp. extractExports(f)) has returned,
\* every later call for f returns the stored records whatever happened to the file,
\* until ImportTracker.clearCache; clearCache empties the imports cache, the exports
\* cache and the parser cache together, and the next call reads the file again and
\* extracts, returns and stores the records of its current content.
C8_CachedUntilClear ==
    [][ /\ (res'.op = "extractImports" /\ Has(importsCache, res'.filePath)) =>
               /\ ~res'.raised
               /\ res'.ret = importsCache[res'.filePath]
               /\ importsCache' = importsCache
        /\ (res'.op = "extractExports" /\ Has(exportsCache, res'.filePath)) =>
               /\ ~res'.raised
               /\ res'.ret = exportsCache[res'.filePath]
               /\ exportsCache' = exportsCache
        /\ res'.op = "ImportTracker.clearCache" =>
               /\ importsCache' = EmptyMap
               /\ exportsCache' = EmptyMap
               /\ cache'["tracker"] = EmptyMap
        /\ (res'.op = "extractImports" /\ FreshAndParseable(res'.filePath, importsCache)) =>
               /\ ~res'.raised
               /\ res'.ret = CollectImports(parserParse(fs[res'.filePath]).ret.body, 1)
               /\ importsCache' = MapSet(importsCache, res'.filePath, res'.ret)
        /\ (res'.op = "extractExports" /\ FreshAndParseable(res'.filePath, exportsCache)) =>
               /\ ~res'.raised
               /\ res'.ret = CollectExports(parserParse(fs[res'.filePath]).ret.body, 1,
                                            res'.filePath)
               /\ exportsCache' = MapSet(exportsCache, res'.filePath, res'.ret)
      ]_vars

\* C10: an extractImports or extractExports that fails raises an AnalysisError whose
\* path is the file asked for; a read or parse failure keeps the message parseFile
\* gave it, with no second layer, and any other failure is wrapped exactly once.
C10_AnalysisErrorOnce ==
    (res.op \in {"extractImports", "extractExports"} /\ res.raised) =>
        /\ res.error.name = "AnalysisError"
        /\ res.error.filePath = res.filePath
        /\ res.error.message =
               IF res.filePath \notin DOMAIN fs
               THEN "Failed to read file: ENOENT: no such file or directory"
               ELSE IF ~Has(cache["tracker"], res.filePath)
               THEN "Failed to parse file: Unexpected token (1:16)"
               ELSE IF res.op = "extractImports"
               THEN "Failed to extract imports: this.analyzer.traverse is not a function"
               ELSE "Failed to extract exports: this.analyzer.traverse is not a function"

\* extractImports re-raised the parse failure of a file that is on disk
C10_Witness ==
    /\ res.op = "extractImports" /\ res.raised
    /\ res.filePath \in DOMAIN fs
    /\ fs[res.filePath] = TextBad
    /\ res.error = AnalysisError("Failed to parse file: " \o SyntaxErrorMessage, res.filePath)

----------------------------------------------------------------------------
(* Claims about the single-file queries, checked under Spec *)

\* the file on disk does not parse, and the instance holds nothing stored for it
Unparseable(p, a, perFile) ==
    /\ p \in DOMAIN fs
    /\ parserParse(fs[p]).raised
    /\ ~Has(cache[a], p)
    /\ ~Has(perFile, p)

\* C9 (as claimed): a single-file query on a file that fails to parse never yields
\* what the query yields on a parseable file without the symbol: validateFunctionCall
\* does not return the ordinary "function not found" result, and extractImports,
\* extractExports and findExportingFile raise.
C9_ParseFailureIsNotAbsence ==
    /\ (res.op = "validateFunctionCall" /\ res.filePath # Undefined
          /\ Unparseable(res.filePath, "validator", signatureCache)) =>
           res.ret.error.template # "Function '${functionName}' not found in ${filePath}"
    /\ (res.op = "extractImports" /\ Unparseable(res.filePath, "tracker", importsCache)) =>
           res.raised
    /\ (res.op = "extractExports" /\ Unparseable(res.filePath, "tracker", exportsCache)) =>
           res.raised
    /\ (res.op = "findExportingFile"
          /\ Unparseable(Head(res.searchPaths), "tracker", exportsCache)) =>
           res.raised

----------------------------------------------------------------------------
(* ImportTracker.buildDependencyGraph and findImporters *)

\* if (resolved.exists && resolved.resolvedPath)
Truthy(resolved) ==
    resolved.exists /\ resolved.resolvedPath # Null /\ resolved.resolvedPath # <<>>

\* the inner loop of buildDependencyGraph: the dependency set of one file
dependencies(imports, filePath) ==
    {resolveImportPath(imports[i].path, filePath).ret.resolvedPath :
        i \in {j \in 1..Len(imports) :
                  /\ isExternalPackage(imports[j].path) = FALSE
                  /\ Truthy(resolveImportPath(imports[j].path, filePath).ret)}}

RECURSIVE buildDependencyGraphFrom(_, _, _, _, _)

\* one turn of the outer loop, given what extractImports yielded for the first file
buildDependencyGraphStep(imports, filePaths, graph) ==
    IF imports.raised THEN imports
    ELSE buildDependencyGraphFrom(imports.cache, imports.importsCache, imports.exportsCache,
                                  Tail(filePaths),
                                  MapSet(graph, Head(filePaths),
                                         dependencies(imports.ret, Head(filePaths))))

buildDependencyGraphFrom(c, ic, ec, filePaths, graph) ==
    IF filePaths = <<>> THEN Returned(graph, c, ic, ec)
    ELSE buildDependencyGraphStep(extractImports(c, ic, ec, Head(filePaths)), filePaths, graph)

buildDependencyGraph(c, ic, ec, filePaths) ==
    buildDependencyGraphFrom(c, ic, ec, filePaths, EmptyMap)

\* the inner loop of findImporters: some import of file resolves to filePath
importsFile(imports, file, filePath) ==
    \E i \in 1..Len(imports) :
        resolveImportPath(imports[i].path, file).ret.resolvedPath = filePath

RECURSIVE findImportersFrom(_, _, _, _, _, _)

findImportersStep(imports, filePath, allFiles, importers) ==
    IF imports.raised THEN imports
    ELSE findImportersFrom(imports.cache, imports.importsCache, imports.exportsCache,
                           filePath, Tail(allFiles),
                           IF importsFile(imports.ret, Head(allFiles), filePath)
                           THEN Append(importers, Head(allFiles)) ELSE importers)

findImportersFrom(c, ic, ec, filePath, allFiles, importers) ==
    IF allFiles = <<>> THEN Returned(importers, c, ic, ec)
    ELSE findImportersStep(extractImports(c, ic, ec, Head(allFiles)),
                           filePath, allFiles, importers)

findImporters(c, ic, ec, filePath, allFiles) ==
    findImportersFrom(c, ic, ec, filePath, allFiles, <<>>)

FileLists == SearchPathLists \cup {<<FileA, FileA>>}

BuildDependencyGraph(filePaths) ==
    TrackerOutcome([op |-> "buildDependencyGraph", filePaths |-> filePaths],
                   buildDependencyGraph(cache["tracker"], importsCache, exportsCache,
                                        filePaths))

FindImporters(filePath, allFiles) ==
    TrackerOutcome([op |-> "findImporters", filePath |-> filePath, allFiles |-> allFiles],
                   findImporters(cache["tracker"], importsCache, exportsCache,
                                 filePath, allFiles))

\* the graph queries of the tracker over a changing disk
NextGraph ==
    \/ \E p \in SourceFiles, text \in Texts : WriteFile(p, text)
    \/ \E p \in SourceFiles : DeleteFile(p)
    \/ \E ps \in FileLists : BuildDependencyGraph(ps)
    \/ \E p \in SourceFiles, ps \in FileLists : FindImporters(p, ps)
    \/ TrackerClearCache

SpecGraph == Init /\ [][NextGraph]_vars

----------------------------------------------------------------------------
(* Claims about the dependency graph, checked under SpecGraph *)

\* the file is on disk, its content parses, and the tracker's parser holds for it
\* either nothing or the tree of that content
Current(p) ==
    /\ p \in DOMAIN fs
    /\ ~parserParse(fs[p]).raised
    /\ Has(cache["tracker"], p) => cache["tracker"][p] = parserParse(fs[p]).ret

\* the import specifiers the content of a file states, in source order
SpecifiersOf(p) ==
    LET imports == CollectImports(parserParse(fs[p]).ret.body, 1)
    IN  {imports[i].path : i \in 1..Len(imports)}

\* the relative specifiers of p that resolve to something that exists
ResolvedDependencies(p) ==
    {resolveImportPath(sp, p).ret.resolvedPath :
        sp \in {x \in SpecifiersOf(p) :
                   /\ IsRelative(x)
                   /\ resolveImportPath(x, p).ret.exists}}

\* C11 (as claimed): buildDependencyGraph(filePaths) returns a mapping with exactly
\* one key per input file, and the value for f is exactly the set of the resolved
\* paths of the relative specifiers of f that resolve to something that exists.
C11_GraphOfResolvedImports ==
    (res.op = "buildDependencyGraph"
       /\ \A i \in 1..Len(res.filePaths) : Current(res.filePaths[i])) =>
        /\ ~res.raised
        /\ DOMAIN res.ret = {res.filePaths[i] : i \in 1..Len(res.filePaths)}
        /\ \A f \in DOMAIN res.ret : res.ret[f] = ResolvedDependencies(f)

\* a and b are parseable files and a states a relative import that resolves to b
Imports(a, b) ==
    /\ a # b
    /\ Current(a)
    /\ Current(b)
    /\ \E sp \in SpecifiersOf(a) :
           IsRelative(sp) /\ resolveImportPath(sp, a).ret.resolvedPath = b

\* C12 (as claimed): for parseable files a and b where a imports b through a relative
\* specifier that resolves to b's path p, buildDependencyGraph([a, b]) has p in the
\* dependency set of a, and findImporters(p, [a, b]) includes a.
C12_ImportEdgeBothWays ==
    /\ (res.op = "buildDependencyGraph" /\ Len(res.filePaths) = 2
          /\ Imports(res.filePaths[1], res.filePaths[2])) =>
           /\ ~res.raised
           /\ res.filePaths[2] \in res.ret[res.filePaths[1]]
    /\ (res.op = "findImporters" /\ Len(res.allFiles) = 2
          /\ res.filePath = res.allFiles[2]
          /\ Imports(res.allFiles[1], res.allFiles[2])) =>
           /\ ~res.raised
           /\ \E i \in 1..Len(res.ret) : res.ret[i] = res.allFiles[1]

----------------------------------------------------------------------------
(* Claims about findExportingFile, checked under SpecTracker *)

\* the content of p states an export named symbolName
ExportsName(p, symbolName) ==
    LET exports == CollectExports(parserParse(fs[p]).ret.body, 1, p)
    IN  \E i \in 1..Len(exports) : exports[i].name = symbolName

\* the positions of the search paths whose file exports the name
Matches(r) == {i \in 1..Len(r.searchPaths) : ExportsName(r.searchPaths[i], r.symbolName)}

\* C13 (as claimed): findExportingFile(symbolName, searchPaths) returns the first
\* path, in the supplied order, whose export list holds an entry named symbolName,
\* and null when no path has one; paths after the first match are not examined.
C13_FirstExportingFile ==
    [][ (res'.op = "findExportingFile"
           /\ \A i \in 1..Len(res'.searchPaths) : Current(res'.searchPaths[i])) =>
            /\ ~res'.raised
            /\ IF Matches(res') = {} THEN res'.ret = Null
               ELSE \E i \in Matches(res') :
                        /\ \A j \in Matches(res') : i <= j
                        /\ res'.ret = res'.searchPaths[i]
                        /\ \A j \in (i + 1)..Len(res'.searchPaths) :
                               LET p == res'.searchPaths[j]
                               IN  (\A k \in 1..i : res'.searchPaths[k] # p) =>
                                       /\ Has(cache'["tracker"], p) = Has(cache["tracker"], p)
                                       /\ Has(exportsCache', p) = Has(exportsCache, p)
      ]_vars

----------------------------------------------------------------------------
(* The signature validator over a changing disk *)

NextValidator ==
    \/ \E p \in SourceFiles, text \in Texts : WriteFile(p, text)
    \/ \E p \in SourceFiles : DeleteFile(p)
    \/ \E n \in SymbolNames, args \in ArgLists, p \in SourceFiles \cup {Undefined} :
           ValidateFunctionCall(n, args, p)
    \/ ValidatorClearCache

SpecValidator == Init /\ [][NextValidator]_vars

----------------------------------------------------------------------------
(* Claims about validateFunctionCall, checked under SpecValidator *)

IsValidate == res.op = "validateFunctionCall"

\* the functions the content of p declares, in source order
DeclaredFunctions(p) == FunctionNodes(PreOrder(parserParse(fs[p]).ret), 1)

\* the file is on disk and parses, and what the validator holds for it, if anything,
\* was derived from its current content
CurrentForValidator(p) ==
    /\ p \in DOMAIN fs
    /\ ~parserParse(fs[p]).raised
    /\ Has(cache["validator"], p) => cache["validator"][p] = parserParse(fs[p]).ret
    /\ Has(signatureCache, p) =>
           /\ Len(signatureCache[p]) = Len(DeclaredFunctions(p))
           /\ \A i \in 1..Len(signatureCache[p]) :
                  signatureCache[p][i].name = DeclaredFunctions(p)[i].name

\* the call asks about a function that the current content of the file declares
AsksDeclared ==
    /\ IsValidate
    /\ res.filePath # Undefined
    /\ CurrentForValidator(res.filePath)
    /\ \E i \in 1..Len(DeclaredFunctions(res.filePath)) :
           DeclaredFunctions(res.filePath)[i].name = res.functionName

\* the parameter list of the first declaration of that name
ParamsOf(p, name) ==
    LET fns == DeclaredFunctions(p)
        k == CHOOSE i \in 1..Len(fns) :
                 fns[i].name = name /\ \A j \in 1..(i - 1) : fns[j].name # name
    IN  fns[k].params

\* C14 (as claimed): for a function f declared in the file with parameter list P,
\* validateFunctionCall(f, args, file) is valid exactly when
\* minArgs <= |args| <= maxArgs, with minArgs the number of non-optional parameters
\* and maxArgs = |P|; fewer arguments give "expected at least minArgs", more give
\* "expected at most maxArgs".
C14_ArityVerdict ==
    AsksDeclared =>
        LET P == ParamsOf(res.filePath, res.functionName)
            minArgs == Cardinality({i \in 1..Len(P) : ~P[i].optional})
            maxArgs == Len(P)
            n == Len(res.args)
        IN  /\ res.ret.valid = (minArgs <= n /\ n <= maxArgs)
            /\ n < minArgs =>
                   /\ res.ret.error.template =
                          "Expected at least ${expectedMinArgs} arguments, got ${actualArgsCount}"
                   /\ res.ret.error.expected = minArgs
            /\ n > maxArgs =>
                   /\ res.ret.error.template =
                          "Expected at most ${expectedMaxArgs} arguments, got ${actualArgsCount}"
                   /\ res.ret.error.expected = maxArgs

\* the lookup cannot succeed: the file is missing or does not parse, and the
\* validator holds nothing stored for it
LookupFails(p) ==
    /\ p \notin DOMAIN fs \/ parserParse(fs[p]).raised
    /\ ~Has(signatureCache, p)
    /\ p \in DOMAIN fs => ~Has(cache["validator"], p)

\* C15 (as claimed): validateFunctionCall never raises and its confidence is 0 or 1;
\* it is 0, with valid=false and no expectedSignature, exactly when no file path was
\* given, the file does not declare the function, or the lookup failed; it is 1,
\* with expectedSignature present, whenever the function is declared in the file, so
\* that the arity was compared.
C15_ConfidenceZeroOrOne ==
    IsValidate =>
        /\ res.ret.confidence \in {0, 1}
        /\ res.ret.confidence = 0 =>
               ~res.ret.valid /\ "expectedSignature" \notin DOMAIN res.ret
        /\ res.ret.confidence = 1 => "expectedSignature" \in DOMAIN res.ret
        /\ res.filePath = Undefined => res.ret.confidence = 0
        /\ (res.filePath # Undefined /\ LookupFails(res.filePath)) => res.ret.confidence = 0
        /\ (res.filePath # Undefined /\ CurrentForValidator(res.filePath)) =>
               (res.ret.confidence = 1 <=> AsksDeclared)

----------------------------------------------------------------------------
(* SignatureValidator.validateAPIUsage *)

\* one entry of a parameters object literal: name: { required, type }
ParamDef(name, required) == [name |-> name, required |-> required]

\* getCommonAPIs(): library -> api -> parameters, each in the order it is written
getCommonAPIs ==
    [fs |->
        [readFile |-> <<ParamDef("path", TRUE), ParamDef("options", FALSE),
                        ParamDef("callback", TRUE)>>,
         writeFile |-> <<ParamDef("path", TRUE), ParamDef("data", TRUE),
                         ParamDef("options", FALSE), ParamDef("callback", TRUE)>>,
         readFileSync |-> <<ParamDef("path", TRUE), ParamDef("options", FALSE)>>,
         writeFileSync |-> <<ParamDef("path", TRUE), ParamDef("data", TRUE),
                             ParamDef("options", FALSE)>>],
     path |->
        [join |-> <<ParamDef("paths", TRUE)>>,
         resolve |-> <<ParamDef("paths", TRUE)>>,
         dirname |-> <<ParamDef("path", TRUE)>>],
     JSON |->
        [parse |-> <<ParamDef("text", TRUE), ParamDef("reviver", FALSE)>>,
         stringify |-> <<ParamDef("value", TRUE), ParamDef("replacer", FALSE),
                         ParamDef("space", FALSE)>>],
     fetch |->
        [fetch |-> <<ParamDef("url", TRUE), ParamDef("options", FALSE)>>]]

\* the properties every object literal inherits from Object.prototype
ObjectPrototype ==
    {"constructor", "hasOwnProperty", "isPrototypeOf", "propertyIsEnumerable",
     "toLocaleString", "toString", "valueOf", "__proto__"}

OwnNames(entries) == {entries[i].name : i \in 1..Len(entries)}

\* paramName in parameters: own keys and inherited ones
InObject(paramName, keys) ==
    (\E i \in 1..Len(keys) : keys[i] = paramName) \/ paramName \in ObjectPrototype

\* apiDefinition.parameters[paramName] read as a condition: an own entry is an
\* object, an inherited property of the literal is a function or an object
DefinitionHas(definition, paramName) ==
    paramName \in OwnNames(definition) \/ paramName \in ObjectPrototype

\* for (const [paramName, paramDef] of Object.entries(apiDefinition.parameters))
RECURSIVE missingRequired(_, _, _, _, _)
missingRequired(definition, k, keys, library, api) ==
    IF k > Len(definition) THEN <<>>
    ELSE (IF definition[k].required /\ ~InObject(definition[k].name, keys)
          THEN <<[template |-> "Missing required parameter '${paramName}' for ${library}.${api}",
                  paramName |-> definition[k].name, library |-> library, api |-> api]>>
          ELSE <<>>)
         \o missingRequired(definition, k + 1, keys, library, api)

\* for (const paramName of Object.keys(parameters))
RECURSIVE unknownParameters(_, _, _, _, _)
unknownParameters(definition, keys, k, library, api) ==
    IF k > Len(keys) THEN <<>>
    ELSE (IF ~DefinitionHas(definition, keys[k])
          THEN <<[template |-> "Unknown parameter '${paramName}' for ${library}.${api}",
                  paramName |-> keys[k], library |-> library, api |-> api]>>
          ELSE <<>>)
         \o unknownParameters(definition, keys, k + 1, library, api)

\* the verdict once the definition of the api is at hand
validateAgainstDefinition(definition, keys, library, api) ==
    [valid |-> missingRequired(definition, 1, keys, library, api) = <<>>,
     errors |-> missingRequired(definition, 1, keys, library, api),
     warnings |-> unknownParameters(definition, keys, 1, library, api),
     suggestions |-> <<>>]

\* parameters is given by its own keys in insertion order
validateAPIUsage(library, api, parameters) ==
    IF library \notin DOMAIN getCommonAPIs
    THEN [valid |-> TRUE, errors |-> <<>>,
          warnings |-> <<[template |-> "No API definitions available for library '${library}'",
                          library |-> library]>>,
          suggestions |-> <<>>]
    ELSE IF api \notin DOMAIN getCommonAPIs[library]
    THEN [valid |-> TRUE, errors |-> <<>>,
          warnings |-> <<[template |-> "No definition available for '${library}.${api}'",
                          library |-> library, api |-> api]>>,
          suggestions |-> <<>>]
    ELSE validateAgainstDefinition(getCommonAPIs[library][api], parameters, library, api)

Libraries == {"fs", "path", "JSON", "fetch", "lodash"}
APIs == {"readFile", "readFileSync", "join", "stringify", "fetch", "readDir"}
ParameterNames == {"path", "callback", "encoding", "toString"}
ParameterObjects ==
    {keys \in UNION {[1..n -> ParameterNames] : n \in 0..MaxParams} :
        \A i, j \in 1..Len(keys) : i # j => keys[i] # keys[j]}

ValidateAPIUsage(library, api, parameters) ==
    /\ res' = [op |-> "validateAPIUsage", library |-> library, api |-> api,
               parameters |-> parameters,
               ret |-> validateAPIUsage(library, api, parameters)]
    /\ UNCHANGED <<fs, cacheVars, trav, serverVars>>

NextAPI ==
    \E library \in Libraries, api \in APIs, parameters \in ParameterObjects :
        ValidateAPIUsage(library, api, parameters)

SpecAPI == Init /\ [][NextAPI]_vars

----------------------------------------------------------------------------
(* Claims about validateAPIUsage, checked under SpecAPI *)

IsAPICheck == res.op = "validateAPIUsage"

Known(r) == r.library \in DOMAIN getCommonAPIs /\ r.api \in DOMAIN getCommonAPIs[r.library]

Supplied(r) == {r.parameters[i] : i \in 1..Len(r.parameters)}

\* the parameters the definition marks required and the call does not supply
MissingRequired(r) ==
    LET definition == getCommonAPIs[r.library][r.api]
    IN  {definition[i].name : i \in {j \in 1..Len(definition) : definition[j].required}}
            \ Supplied(r)

\* the supplied parameters the definition does not list
Unlisted(r) == Supplied(r) \ OwnNames(getCommonAPIs[r.library][r.api])

\* C16 (as claimed): validateAPIUsage returns valid=false exactly when library and
\* api are both known and a required parameter is missing; an unknown library or an
\* unknown api of a known library yields valid=true with exactly one warning and no
\* error; every supplied parameter the definition does not list adds a warning,
\* never an error, and never changes valid.
C16_KnownAPIVerdict ==
    IsAPICheck =>
        /\ ~res.ret.valid <=> (Known(res) /\ MissingRequired(res) # {})
        /\ ~Known(res) =>
               /\ res.ret.valid
               /\ Len(res.ret.warnings) = 1
               /\ res.ret.errors = <<>>
        /\ Known(res) =>
               /\ {res.ret.warnings[i].paramName : i \in 1..Len(res.ret.warnings)}
                      = Unlisted(res)
               /\ Len(res.ret.warnings) = Cardinality(Unlisted(res))
               /\ {res.ret.errors[i].paramName : i \in 1..Len(res.ret.errors)}
                      = MissingRequired(res)

----------------------------------------------------------------------------
(* Claims about the records of extractImports, checked under SpecTracker *)

\* one record per static import declaration, per import(...) call and per
\* require(...) call with a string literal argument, in source order
RECURSIVE ImportRecords(_, _)
ImportRecords(body, line) ==
    IF line > Len(body) THEN <<>>
    ELSE LET n == body[line]
         IN (IF n.type = "ImportDeclaration"
             THEN <<[path |-> n.source, source |-> n.source, specifiers |-> n.specifiers,
                     isTypeOnly |-> (n.importKind = "type"), line |-> line]>>
             ELSE IF n.type = "CallExpression" /\ Len(n.arguments) > 0
                     /\ n.callee.name \in {"import", "require"}
             THEN <<[path |-> n.arguments[1], source |-> n.arguments[1],
                     specifiers |-> IF n.callee.name = "import"
                                    THEN <<"dynamic">> ELSE <<"require">>,
                     isTypeOnly |-> FALSE, line |-> line]>>
             ELSE <<>>)
            \o ImportRecords(body, line + 1)

\* C17 (as claimed): extractImports(f) returns one ImportRecord for every static
\* import declaration, every import(...) call with a string literal argument
\* (specifiers = ["dynamic"]) and every require(...) call with a string literal
\* argument (specifiers = ["require"]), in source order, and returns this sequence
\* successfully for every file that parses.
C17_OneRecordPerImport ==
    (res.op = "extractImports" /\ Current(res.filePath)) =>
        /\ ~res.raised
        /\ res.ret = ImportRecords(parserParse(fs[res.filePath]).ret.body, 1)

----------------------------------------------------------------------------
(* Claims about rendered signatures, checked under SpecSym *)

\* a parameter rendered as name[?][: Type]
RenderedParam(q) ==
    LET name == IF q.optional THEN q.name \o "?" ELSE q.name
    IN  IF q.typeAnnotation # "undefined" THEN name \o ": " \o q.typeAnnotation ELSE name

\* the parameters rendered inside the parentheses after the function name
RenderedCall(node) ==
    node.id \o "(" \o JoinComma([i \in 1..Len(node.params) |-> RenderedParam(node.params[i])])
            \o ")"

\* C18 (as claimed): for a file whose only declaration is an exported function with
\* type-annotated parameters, `export function add(a: number, b: number) {}`,
\* extractSymbols yields exactly one Symbol, of kind function, with exported=true and
\* a signature that renders each parameter as name[?][: Type] inside the parentheses
\* after the function name, with or without the leading function marker.
C18_ExportedTypedFunction ==
    (res.op = "extractSymbols" /\ res.ast = TreeAdd) =>
        /\ ~res.raised
        /\ Len(res.ret) = 1
        /\ res.ret[1].name = "add"
        /\ res.ret[1].type = "function"
        /\ res.ret[1].exported
        /\ res.ret[1].signature \in
               {RenderedCall(TreeAdd.body[1].declaration),
                "function " \o RenderedCall(TreeAdd.body[1].declaration)}

----------------------------------------------------------------------------
(* Claims about repeated extraction, checked under SpecExtract *)

\* the extraction that has just ended followed an extraction of an equal tree
Repeated ==
    /\ trav.status \in {"returned", "raised"}
    /\ "first" \in DOMAIN trav
    /\ trav.first.done

----------------------------------------------------------------------------
(* StrictModeManager and the server's handler of tool calls *)

MaxCalls == 4

Levels == {"off", "warn", "strict", "paranoid"}

ReviewTool == "review_code_for_hallucinations"
ClaimsTool == "validate_factual_claims"
PreflightTool == "verify_symbol_exists"
ContradictionsTool == "detect_contradictions"

ToolNames == {ReviewTool, PreflightTool, ContradictionsTool}

\* the configurations a server is started with
Configs ==
    [level : Levels]
    \cup [level : Levels, requireValidationFor : {<<>>, <<ContradictionsTool>>}]

\* map.get(toolName) || 0
CountOf(history, toolName) == IF Has(history, toolName) THEN history[toolName] ELSE 0

\* this.config.requireValidationFor || [...]
strictTools(cfg) ==
    IF "requireValidationFor" \in DOMAIN cfg
    THEN cfg.requireValidationFor
    ELSE <<ReviewTool, ClaimsTool>>

requiresValidation(cfg, toolName) ==
    CASE cfg.level = "off" -> FALSE
      [] cfg.level = "warn" -> FALSE
      [] cfg.level = "strict" -> Includes(strictTools(cfg), toolName)
      [] cfg.level = "paranoid" -> TRUE
      [] OTHER -> FALSE

\* what logIfRequired writes to the console
logIfRequired(cfg, validations, toolName) ==
    IF cfg.level = "warn" /\ CountOf(validations, toolName) = 0
    THEN <<"Warning: '" \o toolName \o "' called without validation.">>
    ELSE <<>>

\* a variant that asks for a fresh validation in strict mode as well
wasValidationPerformed_freshInStrict(cfg, usages, validations, toolName) ==
    IF cfg.level \in {"paranoid", "strict"}
    THEN CountOf(validations, toolName) > CountOf(usages, toolName)
    ELSE TRUE

wasValidationPerformed(cfg, usages, validations, toolName) ==
    IF cfg.level = "paranoid"
    THEN CountOf(validations, toolName) > CountOf(usages, toolName)
    ELSE IF cfg.level = "strict"
    THEN CountOf(validations, toolName) > 0
    ELSE TRUE

\* a variant that notes the use without counting it
recordToolUsage_onlyNotes(usages, toolName) == MapSet(usages, toolName, 1)

recordToolUsage(usages, toolName) == MapSet(usages, toolName, CountOf(usages, toolName) + 1)

recordValidation(validations, toolName) ==
    MapSet(validations, toolName, CountOf(validations, toolName) + 1)

WarningText(cfg, toolName) ==
    "Strict Mode Warning: Tool '" \o toolName
        \o "' was called without prior validation. Current strictness level: " \o cfg.level

\* the warning (null: none); logged is what requiresValidation wrote to the console
getWarning(cfg, usages, validations, toolName) ==
    LET logged == IF cfg.level = "warn" THEN logIfRequired(cfg, validations, toolName)
                  ELSE <<>>
    IN  IF ~requiresValidation(cfg, toolName)
        THEN [null |-> TRUE, logged |-> logged]
        ELSE IF ~wasValidationPerformed(cfg, usages, validations, toolName)
        THEN [null |-> FALSE, ret |-> WarningText(cfg, toolName), logged |-> logged]
        ELSE [null |-> TRUE, logged |-> logged]

\* the branches of checkViolation on the warning
violationOf(cfg, warning) ==
    IF ~warning.null
    THEN IF cfg.level \in {"strict", "paranoid"}
         THEN [ret |-> [violation |-> TRUE,
                        message |-> "Strict Mode Violation: " \o warning.ret],
               logged |-> warning.logged]
         ELSE [ret |-> [violation |-> FALSE], logged |-> warning.logged \o <<warning.ret>>]
    ELSE [ret |-> [violation |-> FALSE], logged |-> warning.logged]

\* a variant that enforces as in paranoid mode, whatever the level
checkViolation_anyLevel(cfg, usages, validations, toolName) ==
    LET used == recordToolUsage(usages, toolName)
        paranoid == [cfg EXCEPT !.level = "paranoid"]
        out == violationOf(paranoid, getWarning(paranoid, used, validations, toolName))
    IN  [ret |-> out.ret, logged |-> out.logged, toolUsageHistory |-> used]

checkViolation(cfg, usages, validations, toolName) ==
    LET used == recordToolUsage(usages, toolName)
        out == violationOf(cfg, getWarning(cfg, used, validations, toolName))
    IN  [ret |-> out.ret, logged |-> out.logged, toolUsageHistory |-> used]

\* the tools whose calls the server records as validations
ValidationTools ==
    {"verify_symbol_exists", "validate_import_path", "check_function_signature",
     "verify_api_usage", "review_code_for_hallucinations", "validate_factual_claims"}

RECURSIVE Total(_, _)
Total(history, names) ==
    IF names = {} THEN 0
    ELSE LET n == CHOOSE x \in names : TRUE
         IN  CountOf(history, n) + Total(history, names \ {n})

\* the entries of both histories
Recorded == Total(toolUsageHistory, ToolNames) + Total(validationHistory, ToolNames)

CheckViolation(toolName) ==
    LET out == checkViolation(config, toolUsageHistory, validationHistory, toolName)
    IN  /\ Recorded < MaxCalls
        /\ toolUsageHistory' = out.toolUsageHistory
        /\ res' = [op |-> "checkViolation", toolName |-> toolName, raised |-> FALSE,
                   ret |-> out.ret, logged |-> out.logged]
        /\ UNCHANGED <<fs, cacheVars, trav, config, validationHistory, existenceVars, resourceVars>>

RecordValidation(toolName) ==
    /\ Recorded < MaxCalls
    /\ validationHistory' = recordValidation(validationHistory, toolName)
    /\ res' = [op |-> "recordValidation", toolName |-> toolName, raised |-> FALSE]
    /\ UNCHANGED <<fs, cacheVars, trav, config, toolUsageHistory, existenceVars, resourceVars>>

\* the handler of CallToolRequestSchema up to the dispatch to the tool
CallTool(name) ==
    LET out == checkViolation(config, toolUsageHistory, validationHistory, name)
    IN  /\ Recorded < MaxCalls
        /\ toolUsageHistory' = out.toolUsageHistory
        /\ validationHistory' =
               IF ~out.ret.violation /\ name \in ValidationTools
               THEN recordValidation(validationHistory, name)
               ELSE validationHistory
        /\ res' = IF out.ret.violation
                  THEN [op |-> "callTool", name |-> name, raised |-> FALSE,
                        violation |-> out.ret, logged |-> out.logged, executed |-> FALSE,
                        ret |-> [isError |-> TRUE, error |-> "Strict mode violation",
                                 message |-> out.ret.message, strictLevel |-> config.level]]
                  ELSE [op |-> "callTool", name |-> name, raised |-> FALSE,
                        violation |-> out.ret, logged |-> out.logged, executed |-> TRUE]
        /\ UNCHANGED <<fs, cacheVars, trav, config, existenceVars, resourceVars>>

InitStrict ==
    /\ fs = EmptyMap
    /\ InitCaches
    /\ trav = NoTraversal
    /\ config \in Configs
    /\ toolUsageHistory = EmptyMap
    /\ validationHistory = EmptyMap
    /\ InitTools
    /\ res = [op |-> "init"]

NextStrict ==
    \/ \E toolName \in ToolNames : CheckViolation(toolName)
    \/ \E toolName \in ToolNames : RecordValidation(toolName)
    \/ \E name \in ToolNames : CallTool(name)

SpecStrict == InitStrict /\ [][NextStrict]_vars

----------------------------------------------------------------------------
(* Claims about strict mode, checked under SpecStrict *)

\* C20: with level off or warn, checkViolation never reports a violation, for every
\* tool name and after every history of tool calls and recorded validations, and the
\* server rejects no tool call: it executes the tool.
C20_OffAndWarnNeverReject ==
    (config.level \in {"off", "warn"} /\ res.op \in {"checkViolation", "callTool"}) =>
        /\ res.op = "checkViolation" => ~res.ret.violation
        /\ res.op = "callTool" => (~res.violation.violation /\ res.executed)

\* in warn mode the server has executed a repeated call of a tool that was never
\* validated, and logged the warning
C20_Witness ==
    /\ config.level = "warn"
    /\ res.op = "callTool"
    /\ res.name = ContradictionsTool
    /\ res.executed
    /\ res.logged # <<>>
    /\ CountOf(toolUsageHistory, ContradictionsTool) > 1
    /\ CountOf(validationHistory, ContradictionsTool) = 0
    /\ CountOf(validationHistory, PreflightTool) > 0

\* the tools that need a validation in strict mode: requireValidationFor, or the two
\* review tools when the configuration names none
RequiredTools ==
    IF "requireValidationFor" \in DOMAIN config
    THEN {config.requireValidationFor[i] : i \in 1..Len(config.requireValidationFor)}
    ELSE {"review_code_for_hallucinations", "validate_factual_claims"}

----------------------------------------------------------------------------
(* The server on its own: the histories change through tool calls only *)

NextServer == \E name \in ToolNames : CallTool(name)

SpecServer == InitStrict /\ [][NextServer]_vars

----------------------------------------------------------------------------
(* Claims about the server in strict mode, checked under SpecServer *)

\* the tool needs a validation at the server's level
NeedsValidation(name) ==
    \/ config.level = "paranoid"
    \/ config.level = "strict" /\ name \in RequiredTools

\* C22 (as claimed): in strict and paranoid mode a client that has called a pre-flight
\* validation tool first, as the violation message recommends, has its call of a tool
\* that requires validation executed and not rejected as a strict-mode violation.
C22_ValidatedCallIsExecuted ==
    (/\ config.level \in {"strict", "paranoid"}
     /\ res.op = "callTool"
     /\ res.name = ReviewTool
     /\ NeedsValidation(ReviewTool)
     /\ CountOf(toolUsageHistory, PreflightTool) > 0) => res.executed

----------------------------------------------------------------------------
(* ASTAnalyzer.extractSymbols as one call *)

\* the visitor of the node entered, if the visitors object has one for its type
visitNode(entered, symbols, filePath) ==
    CASE entered.node.type = "FunctionDeclaration" ->
             visitFunctionDeclaration(entered.node, entered.line, symbols, filePath)
      [] entered.node.type = "VariableDeclaration" ->
             visitVariableDeclaration(entered.node, entered.line, symbols, filePath)
      [] entered.node.type = "ClassDeclaration" ->
             visitClassDeclaration(entered.node, entered.line, symbols, filePath)
      [] entered.node.type = "TSInterfaceDeclaration" ->
             visitTSInterfaceDeclaration(entered.node, entered.line, symbols, filePath)
      [] entered.node.type = "TSTypeAliasDeclaration" ->
             visitTSTypeAliasDeclaration(entered.node, entered.line, symbols, filePath)
      [] entered.node.type = "ExportNamedDeclaration" ->
             visitExportNamedDeclaration(entered.node, entered.line, symbols, filePath)
      [] entered.node.type = "ExportDefaultDeclaration" ->
             visitExportDefaultDeclaration(entered.node, entered.line, symbols, filePath)
      [] OTHER -> Continue(symbols)

RECURSIVE traverseFrom(_, _, _, _)
RECURSIVE traverseNext(_, _, _, _)

\* traverse.default(ast, visitors) from the node at pos on
traverseFrom(order, pos, symbols, filePath) ==
    IF pos > Len(order) THEN Continue(symbols)
    ELSE traverseNext(order, pos, visitNode(order[pos], symbols, filePath), filePath)

traverseNext(order, pos, outcome, filePath) ==
    IF outcome.raised THEN outcome
    ELSE traverseFrom(order, pos + 1, outcome.symbols, filePath)

extractSymbols(ast, filePath) == traverseFrom(PreOrder(ast), 1, <<>>, filePath)

----------------------------------------------------------------------------
(* ExistenceCheckTools: the symbol index, verifySymbolExists, checkFunctionSignature *)

\* the order in which glob reports the source files of the workspace
SourcePathOrder == <<FileA, PathXts>>

\* getSourceFiles(): the source files on disk
getSourceFiles == SelectSeq(SourcePathOrder, LAMBDA p : Has(fs, p))

\* if (symbols.length > 0) this.symbolCache.set(filePath, symbols); a failure skips
\* the file
indexExtracted(c, index, extracted, filePath) ==
    IF extracted.raised \/ Len(extracted.symbols) = 0
    THEN [cache |-> c, index |-> index]
    ELSE [cache |-> c, index |-> MapSet(index, filePath, extracted.symbols)]

\* the body of the loop of buildSymbolIndex for one file
indexFile(c, index, parsed, filePath) ==
    IF parsed.raised
    THEN [cache |-> parsed.cache, index |-> index]
    ELSE indexExtracted(parsed.cache, index, extractSymbols(parsed.ret, filePath), filePath)

RECURSIVE buildSymbolIndexFrom(_, _, _, _)
RECURSIVE buildSymbolIndexStep(_, _, _)

buildSymbolIndexFrom(c, index, files, i) ==
    IF i > Len(files) THEN [cache |-> c, index |-> index]
    ELSE buildSymbolIndexStep(indexFile(c, index, parseFile(c, files[i]), files[i]),
                              files, i)

buildSymbolIndexStep(built, files, i) ==
    buildSymbolIndexFrom(built.cache, built.index, files, i + 1)

\* buildSymbolIndex() once getSourceFiles() has resolved to files
buildSymbolIndex(c, index, files) == buildSymbolIndexFrom(c, index, files, 1)

\* VerifySymbolExistsSchema.parse(input): symbolType: SymbolTypeEnum.optional()
\* .default("function")
VerifySymbolExistsSchema(input) ==
    IF "symbolType" \in DOMAIN input THEN input
    ELSE [k \in (DOMAIN input) \cup {"symbolType"} |->
              IF k = "symbolType" THEN "function" ELSE input[k]]

Named(symbols, name) == SelectSeq(symbols, LAMBDA sym : sym.name = name)

\* the paths of the index in the order of Map.values()
IndexedPaths(index) == SelectSeq(SourcePathOrder, LAMBDA p : Has(index, p))

RECURSIVE NamedInAll(_, _, _, _)
NamedInAll(index, paths, i, name) ==
    IF i > Len(paths) THEN <<>>
    ELSE Named(index[paths[i]], name) \o NamedInAll(index, paths, i + 1, name)

\* the symbols of that name, in the file when a file path is given
searchResults(index, validated) ==
    IF "filePath" \in DOMAIN validated
    THEN IF Has(index, validated.filePath)
         THEN Named(index[validated.filePath], validated.symbol)
         ELSE <<>>
    ELSE NamedInAll(index, IndexedPaths(index), 1, validated.symbol)

\* if (symbolType && symbolType !== "import") filter by type
filterByType(results, validated) ==
    IF validated.symbolType # "import"
    THEN SelectSeq(results, LAMBDA sym : sym.type = validated.symbolType)
    ELSE results

\* results.sort(exported first)[0]
bestMatch(results) ==
    IF \E i \in 1..Len(results) : results[i].exported
    THEN results[CHOOSE i \in 1..Len(results) :
                     /\ results[i].exported
                     /\ \A j \in 1..(i - 1) : ~results[j].exported]
    ELSE results[1]

answerOf(results, validated) ==
    IF Len(results) > 0
    THEN [exists |-> TRUE, symbol |-> bestMatch(results).name,
          type |-> bestMatch(results).type, exported |-> bestMatch(results).exported,
          otherMatches |-> Len(results) - 1]
    ELSE [exists |-> FALSE, symbol |-> validated.symbol]

\* verifySymbolExists from the search of the index on
verifySearch(index, input) ==
    answerOf(filterByType(searchResults(index, VerifySymbolExistsSchema(input)),
                          VerifySymbolExistsSchema(input)),
             VerifySymbolExistsSchema(input))

\* checkFunctionSignature from the search of the index on, up to the function found
signatureSearch(index, input) ==
    LET fileSymbols == IF Has(index, input.filePath) THEN index[input.filePath] ELSE <<>>
        found == SelectSeq(fileSymbols,
                           LAMBDA sym : sym.name = input.functionName /\ sym.type = "function")
    IN  IF found = <<>>
        THEN [valid |-> FALSE, functionName |-> input.functionName,
              error |-> "Function not found"]
        ELSE [found |-> TRUE, functionName |-> input.functionName,
              expectedSignature |-> found[1].signature, exported |-> found[1].exported]

searchOf(op, index, input) ==
    IF op = "verifySymbolExists" THEN verifySearch(index, input)
    ELSE signatureSearch(index, input)

\* checkFunctionSignature returns at once when no file path is given
ReturnsEarly(op, input) == op = "checkFunctionSignature" /\ "filePath" \notin DOMAIN input

\* the call up to its first await: with an index that has entries it runs to its end
Begin(c, op, input) ==
    /\ calls[c].pc = "idle"
    /\ IF ReturnsEarly(op, input)
       THEN /\ res' = [op |-> op, call |-> c, input |-> input, raised |-> FALSE,
                       pending |-> FALSE, searched |-> FALSE,
                       ret |-> [valid |-> FALSE, functionName |-> input.functionName,
                                error |-> "File path is required to check function signature"]]
            /\ UNCHANGED calls
       ELSE IF symbolCache = EmptyMap
       THEN /\ calls' = [calls EXCEPT ![c] = [pc |-> "getSourceFiles", op |-> op,
                                              input |-> input]]
            /\ res' = [op |-> op, call |-> c, input |-> input, raised |-> FALSE,
                       pending |-> TRUE, searched |-> FALSE]
       ELSE /\ res' = [op |-> op, call |-> c, input |-> input, raised |-> FALSE,
                       pending |-> FALSE, searched |-> TRUE,
                       ret |-> searchOf(op, symbolCache, input)]
            /\ UNCHANGED calls
    /\ UNCHANGED <<fs, cacheVars, trav, managerVars, symbolCache, resourceVars>>

\* getSourceFiles() resolves and buildSymbolIndex runs its loop without another await
BuildSymbolIndex(c) ==
    LET built == buildSymbolIndex(cache["existence"], symbolCache, getSourceFiles)
    IN  /\ calls[c].pc = "getSourceFiles"
        /\ cache' = [cache EXCEPT !["existence"] = built.cache]
        /\ symbolCache' = built.index
        /\ calls' = [calls EXCEPT ![c].pc = "built"]
        /\ res' = [op |-> "buildSymbolIndex", call |-> c, files |-> getSourceFiles,
                   raised |-> FALSE]
        /\ UNCHANGED <<fs, importsCache, exportsCache, signatureCache, trav, managerVars,
                       resourceVars>>

\* the call resumes after await this.buildSymbolIndex() and searches the index
Resume(c) ==
    /\ calls[c].pc = "built"
    /\ calls' = [calls EXCEPT ![c] = [pc |-> "idle"]]
    /\ res' = [op |-> calls[c].op, call |-> c, input |-> calls[c].input, raised |-> FALSE,
               pending |-> FALSE, searched |-> TRUE,
               ret |-> searchOf(calls[c].op, symbolCache, calls[c].input)]
    /\ UNCHANGED <<fs, cacheVars, trav, managerVars, symbolCache, resourceVars>>

\* ExistenceCheckTools.clearCache()
ExistenceClearCache ==
    /\ symbolCache' = EmptyMap
    /\ cache' = [cache EXCEPT !["existence"] = EmptyMap]
    /\ res' = [op |-> "clearCache", tools |-> "existence"]
    /\ UNCHANGED <<fs, importsCache, exportsCache, signatureCache, trav, managerVars,
                   calls, resourceVars>>

IndexTexts == {TextBad, TextFn, TextVar, TextMixed}

\* the workspaces the tools are started in
Workspaces ==
    {EmptyMap} \cup {MapSet(EmptyMap, FileA, t) : t \in IndexTexts}
               \cup {MapSet(MapSet(EmptyMap, FileA, t), PathXts, u) :
                        t \in IndexTexts, u \in {TextVar, TextMixed}}

QueryNames == {"x", "f", "C"}
QueryTypes == {"function", "variable", "class"}

VerifyInputs ==
    [symbol : QueryNames]
    \cup [symbol : QueryNames, symbolType : QueryTypes]
    \cup [symbol : QueryNames, filePath : {FileA}]
    \cup [symbol : QueryNames, filePath : {FileA}, symbolType : QueryTypes]

SignatureInputs ==
    [functionName : {"f", "x"}, args : {<<>>}]
    \cup [functionName : {"f", "x"}, args : {<<>>}, filePath : {FileA}]

InitExistence ==
    /\ fs \in Workspaces
    /\ InitCaches
    /\ InitManager
    /\ InitTools
    /\ trav = NoTraversal
    /\ res = [op |-> "init"]

\* one client: the calls follow one another
NextExistence ==
    \/ \E input \in VerifyInputs : Begin(1, "verifySymbolExists", input)
    \/ \E input \in SignatureInputs : Begin(1, "checkFunctionSignature", input)
    \/ BuildSymbolIndex(1)
    \/ Resume(1)
    \/ ExistenceClearCache

SpecExistence == InitExistence /\ [][NextExistence]_vars

----------------------------------------------------------------------------
(* Claims about the symbol index, checked under SpecExistence *)

\* the symbols of that name in the index, of any kind
Indexed(name) ==
    {<<p, i>> \in (DOMAIN symbolCache) \X (1..4) :
        i <= Len(symbolCache[p]) /\ symbolCache[p][i].name = name}

\* C23 (as claimed): verify_symbol_exists called without a symbolType reports
\* exists=true whenever the symbol index holds a symbol of that name of any kind
\* (function, class, variable, type or interface): no kind filter is applied.
C23_NoKindFilterByDefault ==
    (/\ res.op = "verifySymbolExists"
     /\ res.searched
     /\ DOMAIN res.input = {"symbol"}
     /\ Indexed(res.input.symbol) # {}) => res.ret.exists

----------------------------------------------------------------------------
(* The resolver beside the tracker's caches *)

NextResolveCached ==
    \/ NextTracker
    \/ \E s \in {SpecX, SpecXts, SpecFs}, f \in {FileA} : Resolve(s, f)

SpecResolveCached == Init /\ [][NextResolveCached]_vars

----------------------------------------------------------------------------
(* Claims about the resolver and the caches, checked under SpecResolveCached *)

\* a file or a directory of the disk
OnDisk(p) == p \in DOMAIN fs \/ IsDirectory(DOMAIN fs, p)

\* the answer to a relative specifier is the answer the disk gives: a path found is on
\* the disk, and when none is found no probed path is on the disk
AnswersFromDisk ==
    (IsResolve /\ IsRelative(res.importPath)) =>
        /\ res.ret.exists => OnDisk(res.ret.resolvedPath)
        /\ ~res.ret.exists =>
               LET order == ProbeOrder(ResolvedBase)
               IN  \A i \in 1..Len(order) : ~OnDisk(order[i])

\* C24: resolve is a function of the specifier, the importing file and the disk: a
\* call changes none of the parser, imports, exports and signature caches, and its
\* answer is the one the disk gives at the call, whatever the caches hold and whatever
\* was answered before the disk changed.
C24_ResolveIsPure ==
    /\ [][res'.op = "resolveImportPath" => UNCHANGED <<fs, cacheVars>>]_vars
    /\ []AnswersFromDisk

\* the specifier is not found while the parser cache still holds the tree of the file
\* it named before the file was deleted
C24_Witness ==
    /\ IsResolve
    /\ res.importPath = SpecX
    /\ res.fromFile = FileA
    /\ ~res.ret.exists
    /\ Has(cache["tracker"], PathXts)

----------------------------------------------------------------------------
(* ImportTracker.getAllExports, getAllImports *)

RECURSIVE getAllExportsFrom(_, _, _, _, _)
RECURSIVE getAllImportsFrom(_, _, _, _, _)

\* if (exports.length > 0) allExports.set(filePath, exports); catch: continue
collected(extracted, filePath, all) ==
    IF ~extracted.raised /\ Len(extracted.ret) > 0
    THEN MapSet(all, filePath, extracted.ret)
    ELSE all

\* a variant whose catch block throws the error on
getAllExportsStep_rethrows(exports, filePaths, all) ==
    IF exports.raised THEN exports
    ELSE getAllExportsFrom(exports.cache, exports.importsCache, exports.exportsCache,
                           Tail(filePaths), collected(exports, Head(filePaths), all))

getAllExportsStep(exports, filePaths, all) ==
    getAllExportsFrom(exports.cache, exports.importsCache, exports.exportsCache,
                      Tail(filePaths), collected(exports, Head(filePaths), all))

getAllExportsFrom(c, ic, ec, filePaths, all) ==
    IF filePaths = <<>> THEN Returned(all, c, ic, ec)
    ELSE getAllExportsStep(extractExports(c, ic, ec, Head(filePaths)), filePaths, all)

getAllExports(c, ic, ec, filePaths) == getAllExportsFrom(c, ic, ec, filePaths, EmptyMap)

getAllImportsStep(imports, filePaths, all) ==
    getAllImportsFrom(imports.cache, imports.importsCache, imports.exportsCache,
                      Tail(filePaths), collected(imports, Head(filePaths), all))

getAllImportsFrom(c, ic, ec, filePaths, all) ==
    IF filePaths = <<>> THEN Returned(all, c, ic, ec)
    ELSE getAllImportsStep(extractImports(c, ic, ec, Head(filePaths)), filePaths, all)

getAllImports(c, ic, ec, filePaths) == getAllImportsFrom(c, ic, ec, filePaths, EmptyMap)

GetAllExports(filePaths) ==
    TrackerOutcome([op |-> "getAllExports", filePaths |-> filePaths],
                   getAllExports(cache["tracker"], importsCache, exportsCache, filePaths))

GetAllImports(filePaths) ==
    TrackerOutcome([op |-> "getAllImports", filePaths |-> filePaths],
                   getAllImports(cache["tracker"], importsCache, exportsCache, filePaths))

\* the bulk operations of the tracker and the build of the symbol index
NextBulk ==
    \/ \E ps \in FileLists : GetAllExports(ps)
    \/ \E ps \in FileLists : GetAllImports(ps)
    \/ TrackerClearCache
    \/ \E name \in QueryNames : Begin(1, "verifySymbolExists", [symbol |-> name])
    \/ BuildSymbolIndex(1)
    \/ Resume(1)
    \/ ExistenceClearCache

SpecBulk == InitExistence /\ [][NextBulk]_vars

----------------------------------------------------------------------------
(* Claims about the bulk operations, checked under SpecBulk *)

Elements(list) == {list[i] : i \in 1..Len(list)}

\* the files of the list whose exports, or imports, are extracted without an error
\* and are not empty
WithExports(filePaths) ==
    {p \in Elements(filePaths) :
        LET out == extractExports(cache["tracker"], importsCache, exportsCache, p)
        IN  ~out.raised /\ Len(out.ret) > 0}

WithImports(filePaths) ==
    {p \in Elements(filePaths) :
        LET out == extractImports(cache["tracker"], importsCache, exportsCache, p)
        IN  ~out.raised /\ Len(out.ret) > 0}

\* the files on disk that parse and whose symbols are extracted without an error and
\* are not empty
WithSymbols ==
    {p \in DOMAIN fs :
        /\ ~parserParse(fs[p]).raised
        /\ ~extractSymbols(parserParse(fs[p]).ret, p).raised
        /\ Len(extractSymbols(parserParse(fs[p]).ret, p).symbols) > 0}

\* C25: getAllExports(files), getAllImports(files) and the build of the symbol index
\* never raise because of one file: a file whose read, parse or extraction fails is
\* skipped and the next file is processed, and the result has an entry for exactly the
\* files that are extracted without an error with a list that is not empty.
C25_BulkSkipsFailures ==
    /\ [][/\ res'.op = "getAllExports" =>
                (~res'.raised /\ DOMAIN res'.ret = WithExports(res'.filePaths))
          /\ res'.op = "getAllImports" =>
                (~res'.raised /\ DOMAIN res'.ret = WithImports(res'.filePaths))]_vars
    /\ [](res.op = "buildSymbolIndex" =>
             /\ ~res.raised
             /\ DOMAIN symbolCache = WithSymbols
             /\ \A p \in WithSymbols :
                    symbolCache[p] = extractSymbols(parserParse(fs[p]).ret, p).symbols)

\* the index was built from two files: the first was skipped, the second has its entry
C25_Witness ==
    /\ res.op = "buildSymbolIndex"
    /\ res.files = <<FileA, PathXts>>
    /\ DOMAIN symbolCache = {PathXts}
    /\ Len(symbolCache[PathXts]) > 1

----------------------------------------------------------------------------
(* Claims about failures and the caches, checked under Spec *)

\* C26 (as claimed): a failed operation leaves every cache unchanged: when parse,
\* parseFile, extractImports or extractExports fails for a path, no entry is stored
\* for that path in the tree, imports, exports or signature cache and the entries of
\* other paths are untouched.
C26_FailureLeavesCaches ==
    [][(/\ res'.op \in {"parse", "parseFile", "extractImports", "extractExports"}
        /\ res'.raised) => UNCHANGED cacheVars]_vars

----------------------------------------------------------------------------
(* Claims about the histories of the server, checked under SpecServer *)

\* C27: in every reachable state of the server the recorded validation count of every
\* tool is at most its recorded usage count: a tool call adds exactly one to the usage
\* count of the called tool, also when it is rejected, and to no other; a validation
\* is recorded, once, only for one of the six validation tools and only for a call
\* that was not rejected, and a rejected call does not execute the tool.
C27_ValidationsWithinUsages ==
    /\ [](\A tool \in ToolNames :
             CountOf(validationHistory, tool) <= CountOf(toolUsageHistory, tool))
    /\ [][\A name \in ToolNames : CallTool(name) =>
             /\ \A tool \in ToolNames :
                    /\ CountOf(toolUsageHistory', tool) =
                           CountOf(toolUsageHistory, tool) + (IF tool = name THEN 1 ELSE 0)
                    /\ CountOf(validationHistory', tool) =
                           CountOf(validationHistory, tool)
                               + (IF /\ tool = name
                                     /\ name \in {"verify_symbol_exists", "validate_import_path",
                                                  "check_function_signature", "verify_api_usage",
                                                  "review_code_for_hallucinations",
                                                  "validate_factual_claims"}
                                     /\ res'.executed
                                  THEN 1 ELSE 0)
             /\ res'.executed = ~res'.violation.violation]_vars

\* a repeated call of a tool was rejected and counted as a usage, without a
\* validation, while the validations of an executed validation tool equal its usages
C27_Witness ==
    /\ res.op = "callTool"
    /\ ~res.executed
    /\ res.name = ContradictionsTool
    /\ CountOf(toolUsageHistory, ContradictionsTool) > 1
    /\ CountOf(validationHistory, ContradictionsTool) = 0
    /\ CountOf(validationHistory, PreflightTool) > 0
    /\ CountOf(validationHistory, PreflightTool) = CountOf(toolUsageHistory, PreflightTool)

----------------------------------------------------------------------------
(* ExportsMapResource: the maps of the resource over its own ImportTracker, here the
   tracker instance; the calls of its one client follow one another *)

MaxTicks == 4      \* steps of the clock, each half the time to live

RECURSIVE buildCachesFrom(_, _, _, _, _, _)

\* const imports = this.importTracker.extractImports(filePath);
\* if (imports.length > 0) this.importsCache.set(filePath, imports); catch: continue
buildCachesImports(imports, files, exports, importsMap) ==
    buildCachesFrom(imports.cache, imports.importsCache, imports.exportsCache,
                    Tail(files), exports, collected(imports, Head(files), importsMap))

\* const exports = this.importTracker.extractExports(filePath);
\* if (exports.length > 0) this.exportsCache.set(filePath, exports); catch: continue
buildCachesExports(exports, files, exportsMap, imports) ==
    IF exports.raised
    THEN buildCachesFrom(exports.cache, exports.importsCache, exports.exportsCache,
                         Tail(files), exportsMap, imports)
    ELSE buildCachesImports(extractImports(exports.cache, exports.importsCache,
                                           exports.exportsCache, Head(files)),
                            files, collected(exports, Head(files), exportsMap), imports)

\* the loop of buildCaches over the source files
buildCachesFrom(c, ic, ec, files, exports, imports) ==
    IF files = <<>>
    THEN [cache |-> c, importsCache |-> ic, exportsCache |-> ec,
          exports |-> exports, imports |-> imports, built |-> TRUE]
    ELSE buildCachesExports(extractExports(c, ic, ec, Head(files)), files, exports, imports)

\* buildCaches(): the maps are filled in place
buildCaches(c, ic, ec, exports, imports) ==
    buildCachesFrom(c, ic, ec, getSourceFiles, exports, imports)

\* if (now - this.cacheTime > this.cacheTTL): both maps of the resource are cleared
expired == now - cacheTime > cacheTTL

afterExpiry(m) == IF expired THEN EmptyMap ELSE m

\* if (map.size === 0) await this.buildCaches()
builtIfEmpty(map, c, ic, ec, exports, imports) ==
    IF DOMAIN map = {}
    THEN buildCaches(c, ic, ec, exports, imports)
    ELSE [cache |-> c, importsCache |-> ic, exportsCache |-> ec,
          exports |-> exports, imports |-> imports, built |-> FALSE]

\* the records of one file, or of all files
selected(map, options) ==
    IF "filePath" \in DOMAIN options
    THEN MapSet(EmptyMap, options.filePath,
                IF Has(map, options.filePath) THEN map[options.filePath] ELSE <<>>)
    ELSE map

\* what a call of the resource leaves and answers
ResourceOutcome(op, built, ret) ==
    /\ cache' = [cache EXCEPT !["tracker"] = built.cache]
    /\ importsCache' = built.importsCache
    /\ exportsCache' = built.exportsCache
    /\ resourceExports' = built.exports
    /\ resourceImports' = built.imports
    /\ cacheTime' = IF built.built THEN now ELSE cacheTime
    /\ res' = op @@ [expired |-> expired, built |-> built.built, ret |-> ret]
    /\ UNCHANGED <<fs, signatureCache, trav, managerVars, existenceVars, now>>

\* getExports(options), options without a pattern
GetExports(options) ==
    LET built == builtIfEmpty(afterExpiry(resourceExports), cache["tracker"], importsCache,
                              exportsCache, afterExpiry(resourceExports),
                              afterExpiry(resourceImports))
    IN  ResourceOutcome([op |-> "getExports", options |-> options], built,
                        selected(built.exports, options))

\* getImports(options), external imports included
GetImports(options) ==
    LET built == builtIfEmpty(afterExpiry(resourceImports), cache["tracker"], importsCache,
                              exportsCache, afterExpiry(resourceExports),
                              afterExpiry(resourceImports))
    IN  ResourceOutcome([op |-> "getImports", options |-> options], built,
                        selected(built.imports, options))

\* ExportsMapResource.clearCache
ResourceClearCache ==
    /\ resourceExports' = EmptyMap
    /\ resourceImports' = EmptyMap
    /\ exportsCache' = EmptyMap
    /\ importsCache' = EmptyMap
    /\ cache' = [cache EXCEPT !["tracker"] = EmptyMap]
    /\ res' = [op |-> "ExportsMapResource.clearCache"]
    /\ UNCHANGED <<fs, signatureCache, trav, managerVars, existenceVars, cacheTime, now>>

\* time passes
Tick ==
    /\ now < StartTime + MaxTicks
    /\ now' = now + 1
    /\ res' = [op |-> "tick"]
    /\ UNCHANGED <<fs, cacheVars, trav, managerVars, existenceVars,
                   resourceExports, resourceImports, cacheTime>>

ResourceTexts == {TextBad, TextVar, TextImport, TextMixed}

ResourceOptions == {EmptyMap} \cup [filePath : {FileA, PathXts}]

NextResource ==
    \/ \E options \in ResourceOptions : GetExports(options)
    \/ \E options \in ResourceOptions : GetImports(options)
    \/ ResourceClearCache
    \/ Tick
    \/ \E p \in {FileA, PathXts}, text \in ResourceTexts : WriteFile(p, text)

SpecResource == InitExistence /\ [][NextResource]_vars

----------------------------------------------------------------------------
(* Claims about the maps of the resource, checked under SpecResource *)

\* the export records of the tree the tracker holds for p
RecordsOfHeld(p) == CollectExports(cache["tracker"][p].body, 1, p)

\* the export records of the content p has on disk
RecordsOnDisk(p) == CollectExports(parserParse(fs[p]).ret.body, 1, p)

\* C28 (as claimed): the expiry of the time to live clears the maps of the resource
\* and leaves what its tracker holds; the rebuild after expiry returns, for every
\* source file the tracker extracted before, the records of the content it had then,
\* whatever the file holds now; after ExportsMapResource.clearCache() the rebuild
\* returns the records of the current content.
C28_StaleUntilClearCache ==
    [][(res'.op = "getExports" /\ res'.options = EmptyMap) =>
          /\ res'.expired =>
                 \A p \in DOMAIN cache["tracker"] :
                     /\ Has(cache'["tracker"], p)
                     /\ cache'["tracker"][p] = cache["tracker"][p]
          /\ (res'.expired /\ res'.built) =>
                 \A p \in Elements(getSourceFiles) :
                     (Has(cache["tracker"], p) /\ RecordsOfHeld(p) # <<>>) =>
                         /\ Has(res'.ret, p)
                         /\ res'.ret[p] = RecordsOfHeld(p)
          /\ (resourceExports = EmptyMap /\ exportsCache = EmptyMap
                  /\ cache["tracker"] = EmptyMap) =>
                 \A p \in Elements(getSourceFiles) :
                     (~parserParse(fs[p]).raised /\ RecordsOnDisk(p) # <<>>) =>
                         /\ Has(res'.ret, p)
                         /\ res'.ret[p] = RecordsOnDisk(p)
       ]_vars

----------------------------------------------------------------------------
(* Claims about findImporters against the graph, checked under SpecImporters *)

ImporterTexts == {TextImport, TextBare, TextVar}

\* the targets asked for: the source files and the module a bare specifier names
Targets == SourceFiles \cup {SpecFs}

\* the graph queries of the tracker over files that parse
NextImporters ==
    \/ \E p \in SourceFiles, text \in ImporterTexts : WriteFile(p, text)
    \/ \E ps \in FileLists : BuildDependencyGraph(ps)
    \/ \E t \in Targets, ps \in FileLists : FindImporters(t, ps)
    \/ TrackerClearCache

SpecImporters == Init /\ [][NextImporters]_vars

\* the graph buildDependencyGraph gives for the files findImporters was asked about
GraphOfAsked == buildDependencyGraph(cache["tracker"], importsCache, exportsCache,
                                     res.allFiles)

\* C29 (as claimed): for every list of parseable files, every file f of the list and
\* every target t, findImporters(t, files) holds f exactly when buildDependencyGraph(files)
\* holds t in the dependency set of f; a bare specifier never makes f an importer.
C29_ImportersReverseGraph ==
    (res.op = "findImporters"
       /\ \A i \in 1..Len(res.allFiles) : Current(res.allFiles[i])) =>
        /\ ~res.raised
        /\ ~GraphOfAsked.raised
        /\ \A i \in 1..Len(res.allFiles) :
               (res.allFiles[i] \in Elements(res.ret))
                   <=> (res.filePath \in GraphOfAsked.ret[res.allFiles[i]])

----------------------------------------------------------------------------
(* Claims about concurrent calls of the existence tools, checked under SpecConcurrent *)

ConcurrentInputs == [symbol : QueryNames] \cup [symbol : {"x"}, filePath : {FileA}]

\* calls in flight side by side on one ExistenceCheckTools instance; they interleave
\* at their awaits
NextConcurrent ==
    \/ \E c \in CallIds, input \in ConcurrentInputs : Begin(c, "verifySymbolExists", input)
    \/ \E c \in CallIds, input \in SignatureInputs : Begin(c, "checkFunctionSignature", input)
    \/ \E c \in CallIds : BuildSymbolIndex(c)
    \/ \E c \in CallIds : Resume(c)

SpecConcurrent == InitExistence /\ [][NextConcurrent]_vars

\* the workspace files that parse and declare something
DeclaringFiles ==
    {p \in DOMAIN fs :
        /\ ~parserParse(fs[p]).raised
        /\ \E i \in 1..Len(parserParse(fs[p]).ret.body) :
               Declared(parserParse(fs[p]).ret.body[i]) # {}}

\* C30 (as claimed): under any interleaving of verifySymbolExists and
\* checkFunctionSignature calls on one instance, a call that searches the symbol index
\* finds in it an entry for every workspace file that parses and has symbols; a call
\* that found the index empty builds it in full, and a second build leaves the index
\* the first build left.
C30_CompleteIndexUnderInterleaving ==
    /\ []((res.op \in {"verifySymbolExists", "checkFunctionSignature"} /\ res.searched) =>
              DOMAIN symbolCache = DeclaringFiles)
    /\ [](res.op = "buildSymbolIndex" => DOMAIN symbolCache = DeclaringFiles)
    /\ [][(res'.op = "buildSymbolIndex" /\ symbolCache # EmptyMap) =>
              symbolCache' = symbolCache]_vars

====
